---- MODULE Spec2Model ----
(***************************************************************************)
(* A model of the walk-scheduling backend in src/server.py: the document   *)
(* collections, the request handlers and the two scheduled jobs.           *)
(*                                                                         *)
(* Time is counted in whole days (`now`).  A datetime of the code is the   *)
(* day it falls on; a walk's "YYYY-MM-DD" date string is that day's        *)
(* number, so strftime("%Y-%m-%d") of now + 1 day is now + 1.              *)
(*                                                                         *)
(* An optional field of a document is the set of its values: {} when the   *)
(* field is missing or None, {v} when it is set.                           *)
(*                                                                         *)
(* A collection that find_one / delete_one pick "the first match" of is a  *)
(* sequence in insertion order; bookings, which are only counted and       *)
(* matched, are a bag of documents; the others are functions or sets       *)
(* keyed by their unique id.                                               *)
(*                                                                         *)
(* A handler is one atomic action: the requests are served one at a time. *)
(* The exceptions are create_booking in the interleaved booking runs and   *)
(* the retention loops in the interleaved retention runs, where each       *)
(* database call is a step of its own.                                     *)
(***************************************************************************)
EXTENDS Integers, Sequences, FiniteSets, Bags, TLC

(* ------------------------------ bounds -------------------------------- *)

\* The clock of the reminder runs, and of the interleaved retention runs,
\* stops advancing at MaxDay.
MaxDay == 1

\* Number of walk ids the uuid generator hands out.
MaxWalks == 2

\* The clock of the session runs stops advancing at MaxDayAuth.
MaxDayAuth == 8

\* Number of session documents kept at a time.
MaxSessions == 2

\* Number of uuid4 session tokens handed out in a run.
MaxTokens == 3

\* The clock of the logout and moderation runs stops advancing at MaxDayLogout.
MaxDayLogout == 1

\* The clock of the retention runs stops advancing at MaxDayRetention.
MaxDayRetention == 4

\* Number of users who try to book the walk.
MaxBookers == 11

\* Number of cancelled booking documents kept.
MaxCancelled == 1

\* Largest max_participants an organizer gives a walk in the capacity runs.
MaxCapacity == 2

\* The clock of the password reset runs stops advancing at MaxMinute.
MaxMinute == 16

\* Number of experiences posted.
MaxExperiences == 2

(* --------------------------- program constants ------------------------ *)

\* check_and_send_24h_reminders: tomorrow = now + timedelta(days=1)
ReminderLeadDays == 1

\* "expires_at": datetime.now(timezone.utc) + timedelta(days=7)
SessionDays == 7

\* timedelta(days=3) of the retention job and of send_retention_notification
RetentionDays == 3

\* create_booking: HARD_LIMIT = 10
HARD_LIMIT == 10

\* class WalkCreate: max_participants: int = 10
DefaultMaxParticipants == 10

\* check_and_send_retention_notifications: .to_list(length=100)
ToListLength == 100

\* A missing (or None) optional field.
Unset == {}

\* The request carries no session token.
NoToken == <<"none", 0>>

(* ------------------------------- state -------------------------------- *)

VARIABLES
    now,              \* datetime.now(timezone.utc), in days
    users,            \* db.users: user_id -> document
    user_sessions,    \* db.user_sessions: documents in insertion order
    nextToken,        \* uuid4 session tokens handed out so far
    walks,            \* db.walks: walk_id -> document
    nextWalkId,       \* walk ids handed out so far (uuid4 never repeats)
    bookings,         \* db.bookings: a bag of [walk_id, user_id, status]
    reminders_sent,   \* db.reminders_sent: the keys <<walk_id, date>>
    push_tokens,      \* db.push_tokens: the users with a push token document
    retention_notifications,  \* db.retention_notifications, in insertion order
    response,         \* the answer of the last request or job run
    loggedOut,        \* history: tokens logged out and not issued again since
    activity,         \* history: user_id -> day of the last sign-up or sign-in
    reminderCalls,    \* history: <<walk_id, date>> -> calls of send_walk_reminder
    inflight,         \* create_booking requests between two awaits: user_id -> step
    reviews,          \* db.reviews: a bag of [walk_id, user_id, rating]
    password_resets,  \* db.password_resets: email -> document
    minute,           \* datetime.now(timezone.utc), in minutes of the day `now`
    issued,           \* history: email -> the reset code issued last, and when
    experiences,      \* db.experiences: experience_id -> document
    sending           \* retention runs between two awaits: run -> step

vars == <<now, users, user_sessions, nextToken, walks, nextWalkId, bookings,
          reminders_sent, push_tokens, retention_notifications, response,
          loggedOut, activity, reminderCalls, inflight, reviews,
          password_resets, minute, issued, experiences, sending>>

\* The documents of the database.
dbVars == <<users, user_sessions, walks, bookings, reminders_sent, push_tokens,
            retention_notifications, reviews, password_resets, experiences>>

sessionVars == <<user_sessions, nextToken, loggedOut>>
walkVars == <<walks, nextWalkId>>
reminderVars == <<reminders_sent, reminderCalls>>
retentionVars == <<push_tokens, retention_notifications>>

\* What the handlers that run from request to answer in one step leave alone.
raceVars == <<inflight>>
sendingVars == <<sending>>
reviewVars == <<reviews>>
resetVars == <<password_resets, minute, issued>>
experienceVars == <<experiences>>
moreVars == <<raceVars, sendingVars, reviewVars, resetVars, experienceVars>>

\* The clock, the users and sessions, the walks and bookings, the jobs' records.
coreVars == <<now, users, sessionVars, walkVars, bookings, reminderVars,
              retentionVars, activity>>

\* What a handler that only answers leaves alone.
allButResponse == <<coreVars, moreVars>>

\* A function with one more (or one replaced) entry.
Put(f, k, v) == [x \in DOMAIN f \cup {k} |-> IF x = k THEN v ELSE f[x]]

\* A function without the entry of k.
Drop(f, k) == [x \in DOMAIN f \ {k} |-> f[x]]

\* The elements of a set of numbers as a list, in increasing order.
SetToSeq(S) ==
    IF S = {} THEN <<>>
    ELSE LET top == CHOOSE x \in S : \A y \in S : y <= x
         IN  SelectSeq([i \in 1..top |-> i], LAMBDA x : x \in S)

\* A request's Authorization header: none, "Bearer <token>", or another scheme.
NoHeader == [scheme |-> "none", token |-> NoToken]
Bearer(t) == [scheme |-> "Bearer", token |-> t]

\* What a request carries.
Req(cookie, auth_header) == [cookie |-> cookie, auth_header |-> auth_header]
NoRequest == Req(NoToken, NoHeader)

\* The answer of operation op to request req: the HTTP status (for a job:
\* the number it reports), the session token issued or resolved, the user
\* and the walk it acted for (0: none), and the users it names: `passed`
\* are those handed to send_retention_notification, `out` those notified
\* or, for a listing, the walks returned.
Answer(op, req, status, token, user, walk, passed, out) ==
    [op |-> op, req |-> req, status |-> status, token |-> token, user |-> user,
     walk |-> walk, passed |-> passed, out |-> out]

Resp(op, req, status, token, user) == Answer(op, req, status, token, user, 0, {}, {})

NoResponse == Resp("none", NoRequest, 0, NoToken, 0)

(* ------------------------------- users -------------------------------- *)

\* ADMIN_EMAILS: the user ids whose email is in the list.
ADMIN_EMAILS == {1}

\* def is_admin(user): user.email.lower() in ADMIN_EMAILS
is_admin(user_id) == user_id \in ADMIN_EMAILS

\* The user document the sign-up handlers insert.  register_user sets
\* password_hash and notifications_enabled but no lastLoginAt; create_session
\* sets lastLoginAt but no notifications_enabled; apple_auth sets both.
NewUser(auth_type, enabled, lastLogin) ==
    [auth_type |-> auth_type, role |-> "user", status |-> Unset,
     notifications_enabled |-> enabled, lastLoginAt |-> lastLogin,
     password_hash |-> IF auth_type = "email" THEN {"initial"} ELSE Unset,
     city |-> Unset, neighborhood |-> Unset, sex |-> Unset, age |-> Unset]

(* ------------------------------ sessions ------------------------------ *)

\* session = {user_id, session_token, expires_at: now + 7 days, created_at: now}
NewSession(user_id, token) ==
    [user_id |-> user_id, session_token |-> token,
     expires_at |-> now + SessionDays, created_at |-> now]

\* The index of the first document of a collection that matches, 0 if none:
\* what find_one and delete_one act on.
FirstMatch(docs, Match(_)) ==
    LET matches == {i \in 1..Len(docs) : Match(docs[i])}
    IN  IF matches = {} THEN 0
        ELSE CHOOSE i \in matches : \A j \in matches : i <= j

\* The sequence without its i-th element.
RemoveAt(docs, i) ==
    [j \in 1..(Len(docs) - 1) |-> IF j < i THEN docs[j] ELSE docs[j + 1]]

\* get_session_token: the session_token cookie first, else the token of an
\* Authorization header that starts with "Bearer ".
get_session_token(cookie, auth_header) ==
    IF cookie # NoToken THEN cookie
    ELSE IF auth_header.scheme = "Bearer" /\ auth_header.token # NoToken
         THEN auth_header.token
         ELSE NoToken

\* A check that lets a session live one more day.
ExpiredGrace(session) == session.expires_at + 1 < now

\* if expires_at < datetime.now(timezone.utc): 401 "Session expired"
Expired(session) == session.expires_at < now

\* A status check that refuses only the blocked.
RefusedBlockedOnly(user_doc) == user_doc.status = {"blocked"}

\* The status check of get_current_user: blocked and suspended are refused.
Refused(user_doc) ==
    \/ user_doc.status = {"blocked"}
    \/ user_doc.status = {"suspended"}

\* get_current_user: the status it answers with and the user it resolves.
get_current_user(session_token) ==
    LET i == FirstMatch(user_sessions, LAMBDA s : s.session_token = session_token)
    IN  IF session_token = NoToken THEN [status |-> 401, user_id |-> 0]
        ELSE IF i = 0 THEN [status |-> 401, user_id |-> 0]
        ELSE IF Expired(user_sessions[i]) THEN [status |-> 401, user_id |-> 0]
        ELSE IF user_sessions[i].user_id \notin DOMAIN users
             THEN [status |-> 404, user_id |-> 0]
        ELSE IF Refused(users[user_sessions[i].user_id])
             THEN [status |-> 403, user_id |-> user_sessions[i].user_id]
        ELSE [status |-> 200, user_id |-> user_sessions[i].user_id]

\* Depends(get_current_user) for a request.
Authenticate(req) == get_current_user(get_session_token(req.cookie, req.auth_header))

\* The dependency raised: its error is the answer and nothing else changes.
Rejected(op, req, auth) ==
    /\ response' = Resp(op, req, auth.status,
                        get_session_token(req.cookie, req.auth_header), auth.user_id)
    /\ UNCHANGED allButResponse

\* await db.user_sessions.insert_one(session), and the answer with the token.
InsertSession(op, user_id, token) ==
    /\ user_sessions' = Append(user_sessions, NewSession(user_id, token))
    /\ loggedOut' = loggedOut \ {token}
    /\ activity' = Put(activity, user_id, now)
    /\ response' = Resp(op, NoRequest, 200, token, user_id)

\* session_token = f"sess_{uuid.uuid4().hex}" (or str(uuid.uuid4()))
FreshToken == <<"sess", nextToken + 1>>

\* POST /auth/register
register_user(user_id, valid) ==
    /\ Len(user_sessions) < MaxSessions
    /\ nextToken < MaxTokens
    /\ IF ~valid \/ user_id \in DOMAIN users
       THEN /\ response' = Resp("register_user", NoRequest, 400, NoToken, 0)
            /\ UNCHANGED <<moreVars, users, sessionVars, activity>>
       ELSE /\ users' = Put(users, user_id, NewUser("email", {TRUE}, Unset))
            /\ nextToken' = nextToken + 1
            /\ InsertSession("register_user", user_id, FreshToken)
    /\ UNCHANGED <<moreVars, now, walkVars, bookings, reminderVars, retentionVars>>

\* POST /auth/login
login_user(user_id, password_ok) ==
    /\ Len(user_sessions) < MaxSessions
    /\ nextToken < MaxTokens
    /\ IF \/ user_id \notin DOMAIN users
          \/ users[user_id].auth_type # "email"
          \/ ~password_ok
       THEN /\ response' = Resp("login_user", NoRequest, 401, NoToken, 0)
            /\ UNCHANGED <<moreVars, users, sessionVars, activity>>
       ELSE /\ users' = [users EXCEPT ![user_id].lastLoginAt = {now}]
            /\ nextToken' = nextToken + 1
            /\ InsertSession("login_user", user_id, FreshToken)
    /\ UNCHANGED <<moreVars, now, walkVars, bookings, reminderVars, retentionVars>>

\* POST /auth/session: the OAuth provider answers with the user's id and the
\* session token, which the handler stores as it is.
create_session(user_id, session_token) ==
    /\ Len(user_sessions) < MaxSessions
    /\ users' = IF user_id \in DOMAIN users
                THEN [users EXCEPT ![user_id].lastLoginAt = {now}]
                ELSE Put(users, user_id, NewUser("oauth", Unset, {now}))
    /\ InsertSession("create_session", user_id, session_token)
    /\ UNCHANGED <<moreVars, now, nextToken, walkVars, bookings, reminderVars, retentionVars>>

\* POST /auth/apple
apple_auth(user_id) ==
    /\ Len(user_sessions) < MaxSessions
    /\ nextToken < MaxTokens
    /\ users' = IF user_id \in DOMAIN users
                THEN [users EXCEPT ![user_id].lastLoginAt = {now}]
                ELSE Put(users, user_id, NewUser("apple", {TRUE}, {now}))
    /\ nextToken' = nextToken + 1
    /\ InsertSession("apple_auth", user_id, FreshToken)
    /\ UNCHANGED <<moreVars, now, walkVars, bookings, reminderVars, retentionVars>>

\* delete_one({"session_token": session_token}): the first match goes.
DeleteOneSession(session_token) ==
    LET i == FirstMatch(user_sessions, LAMBDA s : s.session_token = session_token)
    IN  IF i = 0 THEN user_sessions ELSE RemoveAt(user_sessions, i)

\* POST /auth/logout
logout(req) ==
    LET session_token == get_session_token(req.cookie, req.auth_header)
    IN  /\ user_sessions' = IF session_token # NoToken
                            THEN DeleteOneSession(session_token)
                            ELSE user_sessions
        /\ loggedOut' = IF session_token # NoToken
                        THEN loggedOut \cup {session_token}
                        ELSE loggedOut
        /\ response' = Resp("logout", req, 200, session_token, 0)
        /\ UNCHANGED <<moreVars, now, users, nextToken, walkVars, bookings, reminderVars,
                       retentionVars, activity>>

\* GET /auth/me
get_me(req) ==
    LET auth == Authenticate(req)
    IN  IF auth.status # 200 THEN Rejected("get_me", req, auth)
        ELSE /\ response' = Resp("get_me", req, 200,
                                 get_session_token(req.cookie, req.auth_header),
                                 auth.user_id)
             /\ UNCHANGED allButResponse

\* PUT /auth/profile: the fields given (not None) are set.
update_profile(req, profile_data) ==
    LET auth == Authenticate(req)
        current_user == auth.user_id
        Merged(field) == IF profile_data[field] # Unset
                         THEN profile_data[field] ELSE users[current_user][field]
    IN  IF auth.status # 200 THEN Rejected("update_profile", req, auth)
        ELSE IF \A f \in DOMAIN profile_data : profile_data[f] = Unset
        THEN /\ response' = Resp("update_profile", req, 400, NoToken, current_user)
             /\ UNCHANGED allButResponse
        ELSE /\ users' = [users EXCEPT ![current_user] =
                            [@ EXCEPT !.city = Merged("city"),
                                      !.neighborhood = Merged("neighborhood"),
                                      !.sex = Merged("sex"),
                                      !.age = Merged("age"),
                                      !.notifications_enabled =
                                          Merged("notifications_enabled")]]
             /\ response' = Resp("update_profile", req, 200, NoToken, current_user)
             /\ UNCHANGED <<moreVars, now, sessionVars, walkVars, bookings, reminderVars,
                            retentionVars, activity>>

\* The body of a profile update that gives nothing.
NoProfileData ==
    [city |-> Unset, neighborhood |-> Unset, sex |-> Unset, age |-> Unset,
     notifications_enabled |-> Unset]

\* PUT /admin/users/{user_id}/status.  The moderation_log entry it also
\* writes is read by nothing here and is left out.
update_user_status(req, user_id, status) ==
    LET auth == Authenticate(req)
        current_user == auth.user_id
        Refuse(code) == /\ response' = Resp("update_user_status", req, code,
                                            NoToken, current_user)
                        /\ UNCHANGED allButResponse
    IN  IF auth.status # 200 THEN Rejected("update_user_status", req, auth)
        ELSE IF ~is_admin(current_user) THEN Refuse(403)
        ELSE IF status \notin {"active", "suspended", "blocked"} THEN Refuse(400)
        ELSE IF user_id = current_user THEN Refuse(400)
        ELSE IF user_id \notin DOMAIN users THEN Refuse(404)
        ELSE /\ users' = [users EXCEPT ![user_id].status = {status}]
             /\ response' = Resp("update_user_status", req, 200, NoToken, current_user)
             /\ UNCHANGED <<moreVars, now, sessionVars, walkVars, bookings, reminderVars,
                            retentionVars, activity>>

(* ----------------------- matching users and walks --------------------- *)

\* sex_value.upper().strip() on the spellings that occur.
UpperStrip(sex_value) ==
    CASE sex_value \in {"M", "m", " M "} -> "M"
      [] sex_value \in {"Male", "male", "MALE"} -> "MALE"
      [] sex_value \in {"F", "f"} -> "F"
      [] sex_value \in {"Female", "female"} -> "FEMALE"
      [] sex_value \in {"X", "x"} -> "X"
      [] sex_value = "Prefer not to say" -> "PREFER NOT TO SAY"
      [] sex_value = "N/A" -> "N/A"
      [] sex_value \in {"Other", "other"} -> "OTHER"
      [] OTHER -> sex_value

\* def normalize_sex(sex_value), on an optional value: None for a falsy one,
\* M / F / X for a recognised one, else the value as it is.
normalize_sex(sex) ==
    IF sex = Unset \/ sex = {""} THEN Unset
    ELSE LET sex_upper == UpperStrip(CHOOSE s \in sex : TRUE)
         IN  IF sex_upper \in {"M", "MALE"} THEN {"M"}
             ELSE IF sex_upper \in {"F", "FEMALE"} THEN {"F"}
             ELSE IF sex_upper \in {"X", "PREFER NOT TO SAY", "N/A", "OTHER"} THEN {"X"}
             ELSE sex

\* def normalize_sex_list(sex_list): the normalized values that are not None.
RECURSIVE normalize_sex_list(_)
normalize_sex_list(sex_list) ==
    IF sex_list = <<>> THEN <<>>
    ELSE LET n == normalize_sex({Head(sex_list)})
         IN  (IF n = Unset THEN <<>> ELSE <<CHOOSE s \in n : TRUE>>)
                 \o normalize_sex_list(Tail(sex_list))

\* The elements of a list.
Range(list) == {list[i] : i \in 1..Len(list)}

\* notify_previous_participants: the values the $in of the sex filter lists.
RECURSIVE sex_match_values(_)
sex_match_values(walk_sex_normalized) ==
    IF walk_sex_normalized = <<>> THEN {}
    ELSE (CASE Head(walk_sex_normalized) = "M" -> {"M", "Male"}
            [] Head(walk_sex_normalized) = "F" -> {"F", "Female"}
            [] Head(walk_sex_normalized) = "X" ->
                   {"X", "Prefer not to say", "N/A", "Other"}
            [] OTHER -> {})
         \cup sex_match_values(Tail(walk_sex_normalized))

\* A band of notify_previous_participants with a shifted lower edge.
notify_age_in_group_shifted(age_group, user_age) ==
    \/ age_group = "18-24" /\ 18 <= user_age /\ user_age <= 24
    \/ age_group = "25-34" /\ 24 <= user_age /\ user_age <= 34
    \/ age_group = "35-44" /\ 35 <= user_age /\ user_age <= 44
    \/ age_group = "45-54" /\ 45 <= user_age /\ user_age <= 54
    \/ age_group = "55-64" /\ 55 <= user_age /\ user_age <= 64
    \/ age_group = "65-74" /\ 65 <= user_age /\ user_age <= 74
    \/ age_group = "75+" /\ user_age >= 75

\* notify_previous_participants: one arm of the if / elif chain over the bands.
notify_age_in_group(age_group, user_age) ==
    \/ age_group = "18-24" /\ 18 <= user_age /\ user_age <= 24
    \/ age_group = "25-34" /\ 25 <= user_age /\ user_age <= 34
    \/ age_group = "35-44" /\ 35 <= user_age /\ user_age <= 44
    \/ age_group = "45-54" /\ 45 <= user_age /\ user_age <= 54
    \/ age_group = "55-64" /\ 55 <= user_age /\ user_age <= 64
    \/ age_group = "65-74" /\ 65 <= user_age /\ user_age <= 74
    \/ age_group = "75+" /\ user_age >= 75

\* get_walks: one arm of its own copy of the chain.
get_walks_age_in_group(age_group, user_age) ==
    \/ age_group = "18-24" /\ 18 <= user_age /\ user_age <= 24
    \/ age_group = "25-34" /\ 25 <= user_age /\ user_age <= 34
    \/ age_group = "35-44" /\ 35 <= user_age /\ user_age <= 44
    \/ age_group = "45-54" /\ 45 <= user_age /\ user_age <= 54
    \/ age_group = "55-64" /\ 55 <= user_age /\ user_age <= 64
    \/ age_group = "65-74" /\ 65 <= user_age /\ user_age <= 74
    \/ age_group = "75+" /\ user_age >= 75

\* notify_previous_participants: the age filter over the potential users.
notify_age_match(walk_age_groups, age) ==
    IF walk_age_groups = <<>> THEN TRUE
    ELSE /\ age # Unset
         /\ \E g \in Range(walk_age_groups), a \in age : notify_age_in_group(g, a)

\* notify_previous_participants(walk): the user_ids the push goes to.
notify_previous_participants(walk) ==
    LET match_values == sex_match_values(normalize_sex_list(walk.conditions.sex))
        potential_users ==
            {u \in DOMAIN users :
                /\ users[u].notifications_enabled = {TRUE}
                /\ users[u].city = {walk.city}
                /\ u # walk.organizer_id
                /\ match_values # {} => users[u].sex \cap match_values # {}}
    IN  {u \in potential_users : notify_age_match(walk.conditions.age_groups, users[u].age)}

\* get_walks: the sex filter of a walk for the current user.
get_walks_sex_ok(conditions, sex) ==
    conditions.sex # <<>> =>
        /\ normalize_sex(sex) # Unset
        /\ normalize_sex(sex) \subseteq Range(normalize_sex_list(conditions.sex))

\* get_walks: the age filter of a walk for the current user.
get_walks_age_ok(conditions, age) ==
    conditions.age_groups # <<>> =>
        /\ age # Unset
        /\ \E g \in Range(conditions.age_groups), a \in age : get_walks_age_in_group(g, a)

(* ------------------------------ bookings ------------------------------ *)

\* A booking document; its booking_id is what tells equal documents apart.
Booking(walk_id, user_id, status) ==
    [walk_id |-> walk_id, user_id |-> user_id, status |-> status]

\* The documents of the bag that match.
Matching(bag, Match(_)) ==
    LET S == {d \in BagToSet(bag) : Match(d)}
    IN  [d \in S |-> bag[d]]

\* count_documents({"walk_id": walk_id, "status": "active"})
ActiveCount(bag, walk_id) ==
    BagCardinality(Matching(bag, LAMBDA d : d.walk_id = walk_id /\ d.status = "active"))

\* A limit check that lets the count pass the limit.
LimitReachedLate(current_participants) == current_participants > HARD_LIMIT

\* if current_participants >= HARD_LIMIT: 400
LimitReached(current_participants) == current_participants >= HARD_LIMIT

\* A lookup of the user's booking that no stored status matches.
existing_confirmed(bag, walk_id, user_id) ==
    BagIn(Booking(walk_id, user_id, "confirmed"), bag)

\* create_booking: existing = find_one({walk_id, user_id, "status": "active"})
existing(bag, walk_id, user_id) ==
    BagIn(Booking(walk_id, user_id, "active"), bag)

\* POST /bookings
create_booking(req, walk_id) ==
    LET auth == Authenticate(req)
        current_user == auth.user_id
        Refuse(code) == /\ response' = Answer("create_booking", req, code, NoToken,
                                              current_user, walk_id, {}, {})
                        /\ UNCHANGED allButResponse
    IN  IF auth.status # 200 THEN Rejected("create_booking", req, auth)
        ELSE IF walk_id \notin DOMAIN walks THEN Refuse(404)
        ELSE IF LimitReached(ActiveCount(bookings, walk_id)) THEN Refuse(400)
        ELSE IF existing(bookings, walk_id, current_user) THEN Refuse(400)
        ELSE /\ bookings' = bookings (+) SetToBag({Booking(walk_id, current_user, "active")})
             /\ response' = Answer("create_booking", req, 200, NoToken,
                                   current_user, walk_id, {}, {})
             /\ UNCHANGED <<moreVars, now, users, sessionVars, walkVars, reminderVars,
                            retentionVars, activity>>

\* DELETE /bookings/{booking_id}, for the id of document `booking` (an id
\* of no document when the bag does not hold it).
cancel_booking(req, booking) ==
    LET auth == Authenticate(req)
        current_user == auth.user_id
    IN  IF auth.status # 200 THEN Rejected("cancel_booking", req, auth)
        ELSE IF ~BagIn(booking, bookings) \/ booking.user_id # current_user
        THEN /\ response' = Answer("cancel_booking", req, 404, NoToken,
                                   current_user, booking.walk_id, {}, {})
             /\ UNCHANGED allButResponse
        ELSE /\ \/ BagCardinality(Matching(bookings, LAMBDA d : d.status = "cancelled"))
                       < MaxCancelled
                \/ booking.status = "cancelled"
             /\ bookings' = (bookings (-) SetToBag({booking}))
                                (+) SetToBag({[booking EXCEPT !.status = "cancelled"]})
             /\ response' = Answer("cancel_booking", req, 200, NoToken,
                                   current_user, booking.walk_id, {}, {})
             /\ UNCHANGED <<moreVars, now, users, sessionVars, walkVars, reminderVars,
                            retentionVars, activity>>

(* ------------------------------ reviews ------------------------------- *)

\* A review document; its review_id is what tells equal documents apart.
Review(walk_id, user_id, rating) ==
    [walk_id |-> walk_id, user_id |-> user_id, rating |-> rating]

\* A lookup of the user's review that never finds one.
existing_review_none(bag, walk_id, user_id) == FALSE

\* create_review: existing_review = db.reviews.find_one({walk_id, user_id})
existing_review(bag, walk_id, user_id) ==
    \E d \in BagToSet(bag) : d.walk_id = walk_id /\ d.user_id = user_id

\* create_review: booking = db.bookings.find_one({walk_id, user_id}), of any status
booked(bag, walk_id, user_id) ==
    \E d \in BagToSet(bag) : d.walk_id = walk_id /\ d.user_id = user_id

\* POST /reviews
create_review(req, walk_id, rating) ==
    LET auth == Authenticate(req)
        current_user == auth.user_id
        Refuse(code) == /\ response' = Answer("create_review", req, code, NoToken,
                                              current_user, walk_id, {}, {})
                        /\ UNCHANGED allButResponse
    IN  IF auth.status # 200 THEN Rejected("create_review", req, auth)
        ELSE IF rating < 1 \/ rating > 5 THEN Refuse(400)
        ELSE IF walk_id \notin DOMAIN walks THEN Refuse(404)
        ELSE IF ~booked(bookings, walk_id, current_user) THEN Refuse(403)
        ELSE IF existing_review(reviews, walk_id, current_user) THEN Refuse(400)
        ELSE /\ reviews' = reviews (+) SetToBag({Review(walk_id, current_user, rating)})
             /\ response' = Answer("create_review", req, 200, NoToken,
                                   current_user, walk_id, {}, {})
             /\ UNCHANGED <<coreVars, raceVars, sendingVars, resetVars, experienceVars>>

(* ------------------------------- walks -------------------------------- *)

\* The walk document create_walk inserts for the organizer.
NewWalk(organizer_id, walk_data) ==
    [organizer_id |-> organizer_id, city |-> walk_data.city,
     neighborhood |-> walk_data.neighborhood, date |-> walk_data.date,
     max_participants |-> walk_data.max_participants,
     conditions |-> walk_data.conditions]

\* conditions = None, or a dict with neither list filled.
NoConditions == [sex |-> <<>>, age_groups |-> <<>>]

\* POST /walks: insert the walk under a fresh walk_id, then notify.
create_walk(req, walk_data) ==
    LET auth == Authenticate(req)
        walk_id == nextWalkId + 1
        walk == NewWalk(auth.user_id, walk_data)
    IN  IF auth.status # 200 THEN Rejected("create_walk", req, auth)
        ELSE /\ nextWalkId < MaxWalks
             /\ nextWalkId' = walk_id
             /\ walks' = Put(walks, walk_id, walk)
             /\ response' = Answer("create_walk", req, 200, NoToken, auth.user_id,
                                   walk_id, {}, notify_previous_participants(walk))
             /\ UNCHANGED <<moreVars, now, users, sessionVars, bookings, reminderVars,
                            retentionVars, activity>>

\* A permission check that takes the listed admin e-mails for the admin role.
MayEditListed(walk, current_user) ==
    walk.organizer_id = current_user \/ is_admin(current_user)

\* if walk["organizer_id"] != current_user.user_id and current_user.role != "admin"
MayEdit(walk, current_user) ==
    walk.organizer_id = current_user \/ users[current_user].role = "admin"

\* POST /auth/make-admin?email=...: any signed-in user gives the role; the
\* e-mail of user n is n.  modified_count is 0 for no user of that e-mail
\* and for one who is an admin already.
make_admin(req, email) ==
    LET auth == Authenticate(req)
        current_user == auth.user_id
    IN  IF auth.status # 200 THEN Rejected("make_admin", req, auth)
        ELSE IF email \notin DOMAIN users \/ users[email].role = "admin"
        THEN /\ response' = Resp("make_admin", req, 404, NoToken, current_user)
             /\ UNCHANGED allButResponse
        ELSE /\ users' = [users EXCEPT ![email].role = "admin"]
             /\ response' = Resp("make_admin", req, 200, NoToken, current_user)
             /\ UNCHANGED <<moreVars, now, sessionVars, walkVars, bookings, reminderVars,
                            retentionVars, activity>>

\* PUT /walks/{walk_id}: the fields given (not None) are set.
update_walk(req, walk_id, walk_data) ==
    LET auth == Authenticate(req)
        current_user == auth.user_id
        Refuse(code) == /\ response' = Answer("update_walk", req, code, NoToken,
                                              current_user, walk_id, {}, {})
                        /\ UNCHANGED allButResponse
    IN  IF auth.status # 200 THEN Rejected("update_walk", req, auth)
        ELSE IF walk_id \notin DOMAIN walks THEN Refuse(404)
        ELSE IF ~MayEdit(walks[walk_id], current_user) THEN Refuse(403)
        ELSE IF /\ walk_data.date = Unset
                /\ walk_data.city = Unset
                /\ walk_data.max_participants = Unset
        THEN Refuse(400)
        ELSE /\ walks' = [walks EXCEPT ![walk_id] =
                            [@ EXCEPT !.date = IF walk_data.date # Unset
                                               THEN CHOOSE d \in walk_data.date : TRUE
                                               ELSE @,
                                      !.city = IF walk_data.city # Unset
                                               THEN CHOOSE c \in walk_data.city : TRUE
                                               ELSE @,
                                      !.max_participants =
                                               IF walk_data.max_participants # Unset
                                               THEN CHOOSE n \in walk_data.max_participants : TRUE
                                               ELSE @]]
             /\ response' = Answer("update_walk", req, 200, NoToken, current_user,
                                   walk_id, {}, {})
             /\ UNCHANGED <<moreVars, now, users, sessionVars, nextWalkId, bookings,
                            reminderVars, retentionVars, activity>>

\* A delete_many that keeps the walk's cancelled bookings.
delete_many_active(bag, walk_id) ==
    Matching(bag, LAMBDA d : ~(d.walk_id = walk_id /\ d.status = "active"))

\* delete_walk: await db.bookings.delete_many({"walk_id": walk_id})
delete_many(bag, walk_id) == Matching(bag, LAMBDA d : d.walk_id # walk_id)

\* DELETE /walks/{walk_id}: the walk and all its bookings go.
delete_walk(req, walk_id) ==
    LET auth == Authenticate(req)
        current_user == auth.user_id
        Refuse(code) == /\ response' = Answer("delete_walk", req, code, NoToken,
                                              current_user, walk_id, {}, {})
                        /\ UNCHANGED allButResponse
    IN  IF auth.status # 200 THEN Rejected("delete_walk", req, auth)
        ELSE IF walk_id \notin DOMAIN walks THEN Refuse(404)
        ELSE IF ~MayEdit(walks[walk_id], current_user) THEN Refuse(403)
        ELSE /\ walks' = Drop(walks, walk_id)
             /\ bookings' = delete_many(bookings, walk_id)
             /\ response' = Answer("delete_walk", req, 200, NoToken, current_user,
                                   walk_id, {}, {})
             /\ UNCHANGED <<moreVars, now, users, sessionVars, nextWalkId, reminderVars,
                            retentionVars, activity>>

\* GET /walks: the walk_ids listed.  `late` says that the time of day is
\* past the start time of today's walks.
get_walks(req, show_past, all_locations, late) ==
    LET auth == Authenticate(req)
        current_user == auth.user_id
        user == users[current_user]
        global == all_locations /\ is_admin(current_user)
        found == {w \in DOMAIN walks :
                     /\ ~show_past => walks[w].date >= now
                     /\ ~global => user.city = {walks[w].city}}
        filtered_walks ==
            {w \in found :
                /\ ~BagIn(Booking(w, current_user, "active"), bookings)
                /\ ~(walks[w].date = now /\ late)
                /\ ~global =>
                      /\ get_walks_sex_ok(walks[w].conditions, user.sex)
                      /\ get_walks_age_ok(walks[w].conditions, user.age)}
    IN  IF auth.status # 200 THEN Rejected("get_walks", req, auth)
        ELSE /\ response' = Answer("get_walks", req, 200, NoToken, current_user, 0, {},
                                   IF ~global /\ user.city = Unset THEN {}
                                   ELSE filtered_walks)
             /\ UNCHANGED allButResponse

(* --------------------------- 24h reminders ---------------------------- *)

\* reminder_key = f"reminder_sent_{walk['walk_id']}_{tomorrow_date}"
reminder_key(walk_id, date) == <<walk_id, date>>

\* A lookup that never finds the marker.
existing_reminder_none(sent, key) == FALSE

\* existing_reminder = await db.reminders_sent.find_one({"key": reminder_key})
existing_reminder(sent, key) == key \in sent

\* send_push_to_users(user_ids, ...): the users of user_ids who have a
\* push token document.
send_push_to_users(user_ids) == user_ids \cap push_tokens

\* send_walk_reminder(walk_id): whom it sends to, as <<walk_id, user_id,
\* channel>>.  The push goes to user_ids, the users with an active booking;
\* the e-mail to those of them found with notifications_enabled True
\* (email_notifications, True at sign-up, is not modelled).
send_walk_reminder(walk_id) ==
    LET user_ids == {d.user_id : d \in {b \in BagToSet(bookings) :
                                          b.walk_id = walk_id /\ b.status = "active"}}
        found == {u \in user_ids \cap DOMAIN users :
                     users[u].notifications_enabled = {TRUE}}
    IN  IF walk_id \notin DOMAIN walks \/ user_ids = {} THEN {}
        ELSE {<<walk_id, u, "push">> : u \in send_push_to_users(user_ids)}
             \cup {<<walk_id, u, "email">> : u \in found}

\* One more call of send_walk_reminder for the walk, recorded under its key.
\* The call reads the walk and its bookings and writes nothing.
CountCall(calls, key) ==
    IF key \in DOMAIN calls THEN [calls EXCEPT ![key] = @ + 1] ELSE Put(calls, key, 1)

\* The for loop of check_and_send_24h_reminders over the walks found: skip
\* a walk whose marker exists, else send the reminder and insert the marker.
RECURSIVE ReminderLoop(_, _, _, _)
ReminderLoop(ws, date, sent, calls) ==
    IF ws = <<>> THEN [sent |-> sent, calls |-> calls, reminded |-> {}]
    ELSE LET key == reminder_key(Head(ws), date)
         IN  IF existing_reminder(sent, key)
             THEN ReminderLoop(Tail(ws), date, sent, calls)
             ELSE LET rest == ReminderLoop(Tail(ws), date, sent \cup {key},
                                           CountCall(calls, key))
                  IN  [rest EXCEPT !.reminded = @ \cup {Head(ws)}]

\* check_and_send_24h_reminders, run at startup and every hour; it answers
\* with the walks it sent a reminder for (`out`) and whom the reminders
\* went to (`passed`).
check_and_send_24h_reminders ==
    LET tomorrow_date == now + ReminderLeadDays
        found == {w \in DOMAIN walks : walks[w].date = tomorrow_date}
        loop == ReminderLoop(SetToSeq(found), tomorrow_date, reminders_sent, reminderCalls)
    IN  /\ reminders_sent' = loop.sent
        /\ reminderCalls' = loop.calls
        /\ response' = Answer("check_and_send_24h_reminders", NoRequest,
                              Cardinality(found), NoToken, 0, 0,
                              UNION {send_walk_reminder(w) : w \in loop.reminded},
                              loop.reminded)
        /\ UNCHANGED <<moreVars, now, users, sessionVars, walkVars, bookings, retentionVars,
                       activity>>

(* ----------------------- retention notifications ---------------------- *)

\* POST /push/register: upsert the user's push token document.
register_push_token(req, valid) ==
    LET auth == Authenticate(req)
    IN  IF auth.status # 200 THEN Rejected("register_push_token", req, auth)
        ELSE IF ~valid
        THEN /\ response' = Resp("register_push_token", req, 400, NoToken, auth.user_id)
             /\ UNCHANGED allButResponse
        ELSE /\ push_tokens' = push_tokens \cup {auth.user_id}
             /\ response' = Resp("register_push_token", req, 200, NoToken, auth.user_id)
             /\ UNCHANGED <<moreVars, now, users, sessionVars, walkVars, bookings, reminderVars,
                            retention_notifications, activity>>

\* A look-back that misses the record sent exactly three days ago.
sent_recently_open(records, user_id) ==
    \E i \in 1..Len(records) :
        records[i].user_id = user_id /\ records[i].sent_at > now - RetentionDays

\* find_one({"user_id": user_id, "sent_at": {"$gte": now - timedelta(days=3)}})
sent_recently(records, user_id) ==
    \E i \in 1..Len(records) :
        records[i].user_id = user_id /\ records[i].sent_at >= now - RetentionDays

\* What push_client.publish does: deliver, or raise one of the two errors.
PublishOutcomes == {"ok", "DeviceNotRegisteredError", "PushServerError"}

\* The record send_retention_notification inserts after publish.
retention_record(user_id) == [user_id |-> user_id, sent_at |-> now]

\* send_retention_notification(user) on the collections st.tokens and
\* st.records, with the outcome of publish: the collections afterwards and
\* whether a notification went out.
send_retention_notification(st, user_id, outcome) ==
    IF user_id \notin st.tokens THEN [st EXCEPT !.success = FALSE]
    ELSE IF sent_recently(st.records, user_id) THEN [st EXCEPT !.success = FALSE]
    ELSE IF outcome = "ok"
         THEN [tokens |-> st.tokens,
               records |-> Append(st.records, retention_record(user_id)),
               success |-> TRUE]
    ELSE IF outcome = "DeviceNotRegisteredError"
         THEN [tokens |-> st.tokens \ {user_id}, records |-> st.records,
               success |-> FALSE]
    ELSE [st EXCEPT !.success = FALSE]

\* cursor.to_list(length=n): the first n documents found, or all of them
\* when there are fewer.
to_list(found, length) ==
    SubSeq(found, 1, IF Len(found) < length THEN Len(found) ELSE length)

\* The query both the job and the admin endpoint run: lastLoginAt earlier
\* than three days ago or missing, and notifications_enabled not False,
\* with .to_list(length=100): a list.  The find has no sort: the documents
\* come in the order of the collection, here that of the user ids.
inactive_users ==
    LET found == {u \in DOMAIN users :
                     /\ \/ \E t \in users[u].lastLoginAt : t < now - RetentionDays
                        \/ users[u].lastLoginAt = Unset
                     /\ users[u].notifications_enabled # {FALSE}}
    IN  to_list(SetToSeq(found), ToListLength)

\* for user in inactive_users: success = await send_retention_notification(user).
\* `gate` is the has_token test the admin endpoint makes before the call.
\* A call reads and writes the push token and the records of its own user
\* only, and no user is twice in the list: each call finds the collections
\* as the loop found them, as far as its user goes, and the records are
\* inserted in the order of the list.
RetentionLoop(us, st, outcomes, gate) ==
    LET called(u) == ~gate \/ u \in st.tokens
        after(u) == send_retention_notification(st, u, outcomes[u])
        sent(u) == called(u) /\ after(u).success
    IN  [tokens |-> st.tokens \ {u \in Range(us) : called(u) /\ u \notin after(u).tokens},
         records |-> st.records \o
                     SelectSeq([i \in 1..Len(us) |-> retention_record(us[i])],
                               LAMBDA d : sent(d.user_id)),
         passed |-> {u \in Range(us) : called(u)},
         sent |-> {u \in Range(us) : sent(u)}]

\* check_and_send_retention_notifications, run daily; it answers with the
\* users it passed to send_retention_notification and those it sent to.
\* found is the list the query gave, read once before the loop, and loop
\* what the loop over it did.
check_and_send_retention_notifications(outcomes) ==
    \E found \in {inactive_users} :
        \E loop \in {RetentionLoop(found,
                                    [tokens |-> push_tokens,
                                     records |-> retention_notifications,
                                     success |-> FALSE], outcomes, FALSE)} :
            /\ push_tokens' = loop.tokens
            /\ retention_notifications' = loop.records
            /\ response' = Answer("check_and_send_retention_notifications", NoRequest,
                                  Cardinality(loop.sent), NoToken, 0, 0,
                                  loop.passed, loop.sent)
            /\ UNCHANGED <<moreVars, now, users, sessionVars, walkVars, bookings,
                           reminderVars, activity>>

\* POST /admin/test-retention-notifications
test_retention_notifications(req, outcomes) ==
    LET auth == Authenticate(req)
        loop == RetentionLoop(inactive_users,
                              [tokens |-> push_tokens,
                               records |-> retention_notifications,
                               success |-> FALSE], outcomes, TRUE)
    IN  IF auth.status # 200 THEN Rejected("test_retention_notifications", req, auth)
        ELSE IF ~is_admin(auth.user_id)
        THEN /\ response' = Resp("test_retention_notifications", req, 403, NoToken,
                                 auth.user_id)
             /\ UNCHANGED allButResponse
        ELSE /\ push_tokens' = loop.tokens
             /\ retention_notifications' = loop.records
             /\ response' = Answer("test_retention_notifications", req, 200, NoToken,
                                   auth.user_id, 0, loop.passed, loop.sent)
             /\ UNCHANGED <<moreVars, now, users, sessionVars, walkVars, bookings, reminderVars,
                            activity>>

(* --------------------------- password reset --------------------------- *)

\* timedelta(minutes=15) of forgot_password
ResetMinutes == 15

\* if len(request.new_password) < 6: 400
MinPasswordLength == 6

\* The three bodies forgot_password answers with.
GenericMessage == "If an account exists with this email, a reset code has been generated."
SocialMessage == "This account uses Google or Apple Sign-In. Please use that method to log in."
GeneratedMessage == "Reset code generated. Check your email."

\* forgot_password: the message of its answer, by what db.users holds.  The
\* e-mail of user n is n.
forgot_password_message(us, email) ==
    IF email \notin DOMAIN us THEN GenericMessage
    ELSE IF us[email].password_hash = Unset THEN SocialMessage
    ELSE GeneratedMessage

\* The answer of the two reset handlers about an e-mail: `codes` holds the
\* reset code returned or given, `body` the message.
ResetAnswer(op, status, email, codes, body) ==
    Answer(op, NoRequest, status, NoToken, email, 0, codes, body)

\* POST /auth/forgot-password; reset_code is what random.choices drew.
forgot_password(email, reset_code) ==
    LET message == forgot_password_message(users, email)
    IN  IF message # GeneratedMessage
        THEN /\ response' = ResetAnswer("forgot_password", 200, email, {}, {message})
             /\ UNCHANGED allButResponse
        ELSE /\ password_resets' = Put(password_resets, email,
                                       [reset_code |-> reset_code, created_at |-> minute,
                                        expires_at |-> minute + ResetMinutes,
                                        used |-> FALSE])
             /\ issued' = Put(issued, email,
                              [reset_code |-> reset_code, at |-> minute, used |-> FALSE])
             /\ response' = ResetAnswer("forgot_password", 200, email, {reset_code},
                                        {message})
             /\ UNCHANGED <<coreVars, raceVars, sendingVars, reviewVars, experienceVars, minute>>

\* An expiry check that lets every code pass.
code_expired_never(reset_request) == FALSE

\* if datetime.now(timezone.utc) > reset_request["expires_at"]: 400
code_expired(reset_request) == minute > reset_request.expires_at

\* POST /auth/reset-password
reset_password(email, reset_code, new_password) ==
    LET found == /\ email \in DOMAIN password_resets
                 /\ password_resets[email].reset_code = reset_code
                 /\ ~password_resets[email].used
        Refuse(code) == /\ response' = ResetAnswer("reset_password", code, email,
                                                   {reset_code}, {})
                        /\ UNCHANGED allButResponse
    IN  IF ~found THEN Refuse(400)
        ELSE IF code_expired(password_resets[email]) THEN Refuse(400)
        ELSE IF Len(new_password) < MinPasswordLength THEN Refuse(400)
        ELSE IF email \notin DOMAIN users THEN Refuse(404)
        ELSE /\ users' = [users EXCEPT ![email].password_hash = {new_password}]
             /\ password_resets' = [password_resets EXCEPT ![email].used = TRUE]
             /\ issued' = [issued EXCEPT ![email].used = TRUE]
             /\ response' = ResetAnswer("reset_password", 200, email, {reset_code}, {})
             /\ UNCHANGED <<now, sessionVars, walkVars, bookings, reminderVars,
                            retentionVars, activity, raceVars, sendingVars,
                            reviewVars, experienceVars, minute>>

\* A minute passes.
TickMinute(limit) ==
    /\ minute < limit
    /\ minute' = minute + 1
    /\ response' = NoResponse
    /\ UNCHANGED <<coreVars, raceVars, sendingVars, reviewVars, experienceVars, password_resets,
                   issued>>

(* ----------------------------- experiences ---------------------------- *)

\* The experience document create_experience inserts: the author's city as
\* it is at that moment, and no is_visible field.
NewExperience(user_id, user_city) ==
    [user_id |-> user_id, user_city |-> user_city, is_visible |-> Unset]

\* POST /experiences; `valid` says that the text has 5 to 2000 characters.
create_experience(req, valid) ==
    LET auth == Authenticate(req)
        current_user == auth.user_id
        experience_id == Cardinality(DOMAIN experiences) + 1
    IN  IF auth.status # 200 THEN Rejected("create_experience", req, auth)
        ELSE IF ~valid
        THEN /\ response' = Resp("create_experience", req, 400, NoToken, current_user)
             /\ UNCHANGED allButResponse
        ELSE /\ experience_id <= MaxExperiences
             /\ experiences' = Put(experiences, experience_id,
                                   NewExperience(current_user, users[current_user].city))
             /\ response' = Answer("create_experience", req, 200, NoToken, current_user,
                                   0, {}, {experience_id})
             /\ UNCHANGED <<coreVars, raceVars, sendingVars, reviewVars, resetVars>>

\* A query for the experiences of a city that takes the hidden ones too.
shown_in_city_hidden_too(experience, user_city) ==
    experience.user_city = {user_city}

\* get_experiences: {"user_city": user_city, "is_visible": {"$ne": False}}
shown_in_city(experience, user_city) ==
    /\ experience.user_city = {user_city}
    /\ experience.is_visible # {FALSE}

\* GET /experiences: the experience_ids returned.
get_experiences(req) ==
    LET auth == Authenticate(req)
        current_user == auth.user_id
        user_city == users[current_user].city
        found == IF is_admin(current_user) THEN DOMAIN experiences
                 ELSE IF user_city # Unset /\ user_city # {""}
                 THEN {e \in DOMAIN experiences :
                          \E c \in user_city : shown_in_city(experiences[e], c)}
                 ELSE {}
    IN  IF auth.status # 200 THEN Rejected("get_experiences", req, auth)
        ELSE /\ response' = Answer("get_experiences", req, 200, NoToken, current_user,
                                   0, {}, found)
             /\ UNCHANGED allButResponse

\* PUT /admin/experiences/{experience_id}/visibility.  The moderation_log
\* entry it also writes is left out.
update_experience_visibility(req, experience_id, is_visible) ==
    LET auth == Authenticate(req)
        current_user == auth.user_id
        Refuse(code) == /\ response' = Resp("update_experience_visibility", req, code,
                                            NoToken, current_user)
                        /\ UNCHANGED allButResponse
    IN  IF auth.status # 200
        THEN Rejected("update_experience_visibility", req, auth)
        ELSE IF ~is_admin(current_user) THEN Refuse(403)
        ELSE IF experience_id \notin DOMAIN experiences THEN Refuse(404)
        ELSE /\ experiences' = [experiences EXCEPT
                                   ![experience_id].is_visible = {is_visible}]
             /\ response' = Answer("update_experience_visibility", req, 200, NoToken,
                                   current_user, 0, {}, {experience_id})
             /\ UNCHANGED <<coreVars, raceVars, sendingVars, reviewVars, resetVars>>

(* -------------------------------- time -------------------------------- *)

\* A day passes; `response` is the answer to a request of the current day.
Tick(limit) ==
    /\ now < limit
    /\ now' = now + 1
    /\ response' = NoResponse
    /\ UNCHANGED <<moreVars, users, sessionVars, walkVars, bookings, reminderVars,
                   retentionVars, activity>>

(* --------------------------- initial states --------------------------- *)

\* No walk has been created and no job has run.
NoWalksYet ==
    /\ walks = <<>>
    /\ nextWalkId = 0
    /\ bookings = EmptyBag
    /\ reminders_sent = {}
    /\ reminderCalls = <<>>

\* No push token is registered, no request was answered.
NothingElse ==
    /\ push_tokens = {}
    /\ retention_notifications = <<>>
    /\ response = NoResponse
    /\ loggedOut = {}
    /\ inflight = <<>>
    /\ reviews = EmptyBag
    /\ password_resets = <<>>
    /\ minute = 0
    /\ issued = <<>>
    /\ experiences = <<>>
    /\ sending = <<>>

\* The state after startup on an empty database.
Init ==
    /\ now = 0
    /\ users = <<>>
    /\ user_sessions = <<>>
    /\ nextToken = 0
    /\ activity = <<>>
    /\ NoWalksYet
    /\ NothingElse

\* Users 1..n registered by email on day 0, one after another:
\* register_user gave the i-th of them the i-th session token.
SignedUp(n) ==
    /\ now = 0
    /\ users = [u \in 1..n |-> NewUser("email", {TRUE}, Unset)]
    /\ user_sessions = [i \in 1..n |->
                           [user_id |-> i, session_token |-> <<"sess", i>>,
                            expires_at |-> SessionDays, created_at |-> 0]]
    /\ nextToken = n
    /\ activity = [u \in 1..n |-> 0]

\* The request of the user who holds the i-th session token.
Cookie(i) == Req(<<"sess", i>>, NoHeader)

(* ------------------- walks and their 24h reminders -------------------- *)

WalkIds == 1..MaxWalks
Days == 1..(MaxDay + ReminderLeadDays)

\* The body of a POST /walks for a walk in Paris on day d, open to all.
WalkOn(d) ==
    [city |-> "Paris", neighborhood |-> "North", date |-> d,
     max_participants |-> DefaultMaxParticipants, conditions |-> NoConditions]

\* One user has registered.
InitReminders == SignedUp(1) /\ NoWalksYet /\ NothingElse

\* A WalkUpdate that gives the date only.
WalkDate(d) == [date |-> {d}, city |-> Unset, max_participants |-> Unset]

CreateWalk == \E d \in Days : create_walk(Cookie(1), WalkOn(d))
UpdateWalk ==
    \E w \in WalkIds, d \in Days : update_walk(Cookie(1), w, WalkDate(d))
DeleteWalk == \E w \in WalkIds : delete_walk(Cookie(1), w)

Next ==
    \/ check_and_send_24h_reminders
    \/ CreateWalk
    \/ UpdateWalk
    \/ DeleteWalk
    \/ Tick(MaxDay)

Spec == InitReminders /\ [][Next]_vars

\* C1: over any sequence of runs of the job, send_walk_reminder is called at
\* most once for each (walk_id, date) pair, and a pair it was called for has
\* its reminders_sent marker, so that every later run skips the walk; a run
\* sends only for walks dated tomorrow.
C1_ReminderAtMostOnce ==
    /\ \A key \in DOMAIN reminderCalls :
          reminderCalls[key] = 1 /\ key \in reminders_sent
    /\ response.op = "check_and_send_24h_reminders" =>
          \A w \in response.out : <<w, now + 1>> \in reminders_sent

\* A later run found a walk dated tomorrow whose marker exists and sent nothing.
C1_Witness ==
    /\ response.op = "check_and_send_24h_reminders"
    /\ response.status > 0
    /\ response.out = {}
    /\ \E w \in DOMAIN walks :
          /\ walks[w].date = now + 1
          /\ <<w, now + 1>> \in reminders_sent
          /\ reminderCalls[<<w, now + 1>>] = 1

(* ------------------------------ sessions ------------------------------ *)

\* A user id belongs to one sign-in method: "user_<hex>" ids to
\* register_user, the provider's ids to create_session, "apple_<sub>" ids to
\* apple_auth.
EmailUsers == {1}
OAuthUsers == {2}
AppleUsers == {3}

\* The session tokens the OAuth provider answers with.
ExternalTokens == {<<"ext", 1>>}

TokenValues == {<<"sess", n>> : n \in 1..MaxSessions} \cup ExternalTokens

\* What a request carries: a cookie, a header, neither, or both.
Requests ==
    {Req(c, NoHeader) : c \in TokenValues \cup {NoToken}}
        \cup {Req(NoToken, Bearer(t)) : t \in TokenValues}
        \cup {Req(NoToken, [scheme |-> "Basic", token |-> t]) : t \in ExternalTokens}
        \cup {Req(t, Bearer(<<"sess", 1>>)) : t \in ExternalTokens}

RegisterUser == \E u \in EmailUsers, valid \in BOOLEAN : register_user(u, valid)
LoginUser == \E u \in EmailUsers, ok \in BOOLEAN : login_user(u, ok)
CreateSession == \E u \in OAuthUsers, t \in ExternalTokens : create_session(u, t)
AppleAuth == \E u \in AppleUsers : apple_auth(u)
Logout == \E r \in Requests : logout(r)
GetMe == \E r \in Requests : get_me(r)

\* Sign-up, sign-in and requests to a protected endpoint over the lifetime
\* of a session.
NextAuth ==
    \/ RegisterUser
    \/ LoginUser
    \/ CreateSession
    \/ AppleAuth
    \/ GetMe
    \/ Tick(MaxDayAuth)

SpecAuth == Init /\ [][NextAuth]_vars

\* The sessions of `docs` that carry token t.
SessionsOf(docs, t) == {i \in 1..Len(docs) : docs[i].session_token = t}

\* The token a request presents: the cookie when there is one, else the
\* token of a Bearer header.
Presented(req) ==
    IF req.cookie # NoToken THEN req.cookie
    ELSE IF req.auth_header.scheme = "Bearer" THEN req.auth_header.token
    ELSE NoToken

\* C7: a request to a protected endpoint whose token (cookie first, else the
\* Bearer header) is absent, matches no session, or matches a session whose
\* expires_at is earlier than now is answered 401; every session expires 7
\* days after its creation; so a request that is not answered 401 presents a
\* token issued at most 7 days earlier.
C7_ExpiredOrUnknownRejected ==
    /\ \A i \in 1..Len(user_sessions) :
          user_sessions[i].expires_at = user_sessions[i].created_at + SessionDays
    /\ response.op = "get_me" =>
          LET t == Presented(response.req)
              mine == SessionsOf(user_sessions, t)
          IN  /\ \/ t = NoToken
                 \/ mine = {}
                 \/ \E i \in mine : user_sessions[i].expires_at < now
                 => response.status = 401
              /\ response.status # 401 =>
                    \E i \in mine : now <= user_sessions[i].created_at + SessionDays

\* A request with the token of a session created more than 7 days ago was
\* answered 401.
C7_Witness ==
    /\ response.op = "get_me"
    /\ response.status = 401
    /\ \E i \in SessionsOf(user_sessions, Presented(response.req)) :
          user_sessions[i].created_at + SessionDays < now

\* Sign-in, logout and requests to a protected endpoint.
NextLogout ==
    \/ RegisterUser
    \/ LoginUser
    \/ CreateSession
    \/ AppleAuth
    \/ Logout
    \/ GetMe
    \/ Tick(MaxDayLogout)

SpecLogout == Init /\ [][NextLogout]_vars

\* C8: after logout with token t, and until a new session with the same
\* token value is created, no session carries t and a request that presents
\* t to a protected endpoint is answered 401; logout leaves the sessions of
\* other tokens as they are.
C8_LoggedOutTokenRejected ==
    /\ \A t \in loggedOut : SessionsOf(user_sessions, t) = {}
    /\ response.op = "get_me" /\ Presented(response.req) \in loggedOut
          => response.status = 401

(* ----------------------------- moderation ----------------------------- *)

\* Bodies of PUT /auth/profile.
CityOnly(city) == [NoProfileData EXCEPT !.city = {city}]

\* Statuses an admin may send; "banned" is not one the handler accepts.
StatusInputs == {"active", "suspended", "blocked", "banned"}

\* The requests of the admin (the first to register) and of the OAuth user.
ModRequests ==
    {Req(t, NoHeader) : t \in {<<"sess", 1>>} \cup ExternalTokens}
        \cup {Req(NoToken, Bearer(t)) : t \in ExternalTokens}

ModLogout == \E r \in ModRequests : logout(r)
ModGetMe == \E r \in ModRequests : get_me(r)
UpdateProfile == \E r \in ModRequests, d \in {NoProfileData, CityOnly("Paris")} :
                    update_profile(r, d)
UpdateUserStatus ==
    \E r \in ModRequests, u \in EmailUsers \cup OAuthUsers, s \in StatusInputs :
        update_user_status(r, u, s)

\* An admin, a user who signs in and out, and the admin changing their status.
NextModeration ==
    \/ RegisterUser
    \/ CreateSession
    \/ ModLogout
    \/ ModGetMe
    \/ UpdateProfile
    \/ UpdateUserStatus
    \/ Tick(MaxDayLogout)

SpecModeration == Init /\ [][NextModeration]_vars

\* The endpoints with Depends(get_current_user).
ProtectedOps ==
    {"get_me", "update_profile", "update_user_status", "create_walk", "update_walk",
     "delete_walk", "get_walks", "create_booking", "cancel_booking",
     "register_push_token", "test_retention_notifications"}

\* The request presents a token whose sessions are all live sessions of
\* users whose status is blocked or suspended.
OfModeratedUser(req) ==
    LET mine == SessionsOf(user_sessions, Presented(req))
    IN  /\ Presented(req) # NoToken
        /\ mine # {}
        /\ \A i \in mine :
              /\ now <= user_sessions[i].expires_at
              /\ user_sessions[i].user_id \in DOMAIN users
              /\ \/ users[user_sessions[i].user_id].status = {"blocked"}
                 \/ users[user_sessions[i].user_id].status = {"suspended"}

\* C9: while a user's status is blocked or suspended, a request to a
\* protected endpoint that presents a live session of that user, created
\* before or after the status change, is answered 403 and changes no
\* document.
C9_ModeratedUserRefused ==
    [][response'.op \in ProtectedOps /\ OfModeratedUser(response'.req)
          => response'.status = 403 /\ UNCHANGED dbVars]_vars

\* A profile update of a suspended user was answered 403.
C9_Witness ==
    /\ response.op = "update_profile"
    /\ response.status = 403
    /\ response.user \in DOMAIN users
    /\ users[response.user].status = {"suspended"}
    /\ response.req.cookie = NoToken

(* ------------------------------ booking ------------------------------- *)

\* The users who book, and the few of them who also cancel.
Bookers == 1..MaxBookers
Cancellers == {2}

\* MaxBookers users have registered and user 1 has created a walk.
InitBooking ==
    /\ SignedUp(MaxBookers)
    /\ walks = Put(<<>>, 1, NewWalk(1, WalkOn(1)))
    /\ nextWalkId = 1
    /\ bookings = EmptyBag
    /\ reminders_sent = {}
    /\ reminderCalls = <<>>
    /\ NothingElse

CreateBooking == \E u \in Bookers : create_booking(Cookie(u), 1)
CancelBooking ==
    \E u \in {1} \cup Cancellers, o \in Cancellers, s \in {"active", "cancelled"} :
        cancel_booking(Cookie(u), Booking(1, o, s))
DeleteWalkBooked == \E u \in {1, 2} : delete_walk(Cookie(u), 1)

\* Users booking and cancelling a walk, and its organizer deleting it.
NextBooking ==
    \/ CreateBooking
    \/ CancelBooking
    \/ DeleteWalkBooked

SpecBooking == InitBooking /\ [][NextBooking]_vars

\* The active bookings of a walk.
ActiveOf(walk_id) ==
    {d \in BagToSet(bookings) : d.walk_id = walk_id /\ d.status = "active"}

\* C10: with the requests served one at a time, no walk has more than 10
\* active bookings, no user holds two active bookings of a walk, and a
\* create_booking for a walk that has 10 active bookings, none of them the
\* requester's, was answered 400.
C10_AtMostTenActive ==
    /\ \A w \in WalkIds :
          /\ Cardinality(ActiveOf(w)) <= 10
          /\ \A d \in ActiveOf(w) : bookings[d] = 1
    /\ /\ response.op = "create_booking"
       /\ Cardinality(ActiveOf(response.walk)) = 10
       /\ Booking(response.walk, response.user, "active") \notin ActiveOf(response.walk)
       => response.status = 400

\* The eleventh user was refused while ten held an active booking, after a
\* cancellation had freed and another booking had taken a place.
C10_Witness ==
    /\ response.op = "create_booking"
    /\ response.status = 400
    /\ Cardinality(ActiveOf(response.walk)) = 10
    /\ Booking(response.walk, response.user, "active") \notin ActiveOf(response.walk)
    /\ \E d \in BagToSet(bookings) : d.status = "cancelled"

(* ----------------------------- retention ------------------------------ *)

AllUsers == EmailUsers \cup OAuthUsers \cup AppleUsers

\* The requests of the users who signed in.
RetentionRequests ==
    {Req(t, NoHeader) : t \in {<<"sess", 1>>, <<"sess", 2>>} \cup ExternalTokens}

\* Bodies of PUT /auth/profile that switch the notifications.
Notifications(enabled) == [NoProfileData EXCEPT !.notifications_enabled = {enabled}]

\* publish delivers to all, or to all but one user.
Outcomes ==
    {[x \in AllUsers |-> IF x = u THEN o ELSE "ok"] : u \in AllUsers, o \in PublishOutcomes}

SwitchNotifications ==
    \E r \in RetentionRequests, e \in BOOLEAN : update_profile(r, Notifications(e))
RegisterPushToken ==
    \E r \in RetentionRequests, valid \in BOOLEAN : register_push_token(r, valid)
RetentionJob == \E outcomes \in Outcomes : check_and_send_retention_notifications(outcomes)
TestRetention ==
    \E r \in RetentionRequests, outcomes \in Outcomes : test_retention_notifications(r, outcomes)

\* Two users have registered.
InitRetention == SignedUp(2) /\ NoWalksYet /\ NothingElse

\* Two registered users with their devices, and the retention job and the
\* admin's test of it over several days.
NextRetention ==
    \/ SwitchNotifications
    \/ RegisterPushToken
    \/ RetentionJob
    \/ TestRetention
    \/ Tick(MaxDayRetention)

SpecRetention == InitRetention /\ [][NextRetention]_vars

\* Users signing up and in by each method, and the retention job over
\* several days.
NextInactivity ==
    \/ RegisterUser
    \/ LoginUser
    \/ CreateSession
    \/ AppleAuth
    \/ SwitchNotifications
    \/ RetentionJob
    \/ Tick(MaxDayRetention)

SpecInactivity == Init /\ [][NextInactivity]_vars

RetentionOps == {"check_and_send_retention_notifications", "test_retention_notifications"}

\* The records of a user, as indices into retention_notifications.
RecordsOf(user_id) ==
    {i \in 1..Len(retention_notifications) :
        retention_notifications[i].user_id = user_id}

\* C2: over any sequence of runs of send_retention_notification, from the
\* job or from the admin endpoint, a user who is sent a notification has no
\* earlier record within the previous 3 days, and any two records of a user
\* are more than 3 days apart.
C2_NoResendWithinThreeDays ==
    /\ \A i, j \in 1..Len(retention_notifications) :
          /\ i < j
          /\ retention_notifications[i].user_id = retention_notifications[j].user_id
          => retention_notifications[j].sent_at - retention_notifications[i].sent_at > 3
    /\ response.op \in RetentionOps =>
          \A u \in response.out :
              \E i \in RecordsOf(u) :
                  /\ retention_notifications[i].sent_at = now
                  /\ \A j \in RecordsOf(u) \ {i} :
                        retention_notifications[j].sent_at < now - 3

\* A user was sent a second notification, more than 3 days after the first,
\* after a run in between had skipped them.
C2_Witness ==
    /\ response.op \in RetentionOps
    /\ \E u \in response.out : Cardinality(RecordsOf(u)) = 2

\* C6: the daily job passes to send_retention_notification only users whose
\* last sign-up or sign-in (by password, OAuth session or Apple) is 3 days
\* old or older, and no user whose notifications_enabled is False.
C6_OnlyInactiveUsersPassed ==
    response.op = "check_and_send_retention_notifications" =>
        \A u \in response.passed :
            /\ now - activity[u] >= 3
            /\ users[u].notifications_enabled # {FALSE}

(* ------------------- new-walk notifications and listing --------------- *)

\* Three users have registered.
InitNotify == SignedUp(3) /\ NoWalksYet /\ NothingElse

\* Spellings of a sex a profile or a walk may carry; "Q" is none the code knows.
SexInputs == {"M", "male", "F", "Q"}

\* Bodies of PUT /auth/profile that set one field.
SexOnly(sex) == [NoProfileData EXCEPT !.sex = {sex}]
AgeOnly(age) == [NoProfileData EXCEPT !.age = {age}]

\* The profile the organizer and the third user fill in at once.
FullProfile(sex, age, neighborhood) ==
    [city |-> {"Paris"}, neighborhood |-> {neighborhood}, sex |-> {sex}, age |-> {age},
     notifications_enabled |-> Unset]

ProfileInputs ==
    {CityOnly(c) : c \in {"Paris", "Lyon"}}
        \cup {SexOnly(x) : x \in SexInputs}
        \cup {AgeOnly(30)}
        \cup {Notifications(e) : e \in BOOLEAN}

\* The sex and age conditions a walk is created with.
SexConditions == {<<>>, <<"M">>, <<"Male", "F">>, <<"Q">>}
AgeConditions == {<<>>, <<"25-34", "75+">>}

\* The body of a POST /walks for tomorrow's walk in Paris with conditions.
WalkFor(sex, age_groups) ==
    [WalkOn(1) EXCEPT !.conditions = [sex |-> sex, age_groups |-> age_groups]]

FillProfile ==
    \/ update_profile(Cookie(1), FullProfile("M", 30, "North"))
    \/ update_profile(Cookie(3), FullProfile("F", 80, "South"))
EditProfile == \E d \in ProfileInputs : update_profile(Cookie(2), d)
CreateWalkFor ==
    \E sex \in SexConditions, age_groups \in AgeConditions :
        create_walk(Cookie(1), WalkFor(sex, age_groups))
GetWalks == \E u \in {2, 3} : get_walks(Cookie(u), FALSE, FALSE, FALSE)
GetAllWalks == \E u \in {1, 2} : get_walks(Cookie(u), FALSE, TRUE, FALSE)

\* Users filling in their profile, an organizer creating walks with
\* conditions, and users listing the walks.
NextNotify ==
    \/ FillProfile
    \/ EditProfile
    \/ CreateWalkFor
    \/ GetWalks
    \/ GetAllWalks

SpecNotify == InitNotify /\ [][NextNotify]_vars

\* The ages of a band, as the documentation of the bands gives them.
InBand(age_group, age) ==
    CASE age_group = "18-24" -> age \in 18..24
      [] age_group = "25-34" -> age \in 25..34
      [] age_group = "35-44" -> age \in 35..44
      [] age_group = "45-54" -> age \in 45..54
      [] age_group = "55-64" -> age \in 55..64
      [] age_group = "65-74" -> age \in 65..74
      [] age_group = "75+" -> age >= 75
      [] OTHER -> FALSE

\* A user's sex is among a walk's sex values, as written or once both are
\* normalized.
SexAmong(sex, sex_list) ==
    /\ sex # Unset
    /\ \/ sex \subseteq Range(sex_list)
       \/ normalize_sex(sex) \subseteq Range(normalize_sex_list(sex_list))

\* A user's age lies in one of a walk's age groups.
AgeAmong(age, age_groups) ==
    \E a \in age, g \in Range(age_groups) : InBand(g, a)

\* The users a new walk is to be announced to.
Targets(walk) ==
    {u \in DOMAIN users :
        /\ users[u].notifications_enabled = {TRUE}
        /\ users[u].city = {walk.city}
        /\ u # walk.organizer_id
        /\ walk.conditions.sex # <<>> => SexAmong(users[u].sex, walk.conditions.sex)
        /\ walk.conditions.age_groups # <<>> =>
              AgeAmong(users[u].age, walk.conditions.age_groups)}

\* C3: create_walk notifies exactly the users with notifications enabled,
\* in the walk's city, other than the organizer, whose sex is among the
\* walk's sex values when it has a sex condition and whose age lies in one of
\* its age groups when it lists some; the neighborhood plays no part.
C3_TargetsExactly ==
    response.op = "create_walk" /\ response.status = 200
        => response.out = Targets(walks[response.walk])

\* C4: for a walk with a sex condition and a user with notifications
\* enabled who is not the organizer (and is in the walk's city and age
\* groups), the user is notified if and only if the user's normalized sex is
\* in the walk's normalized sex list, which is what get_walks filters on.
C4_TargetingMatchesNormalizedSex ==
    response.op = "create_walk" /\ response.status = 200
        /\ walks[response.walk].conditions.sex # <<>>
        => LET walk == walks[response.walk]
           IN  \A u \in DOMAIN users :
                  /\ users[u].notifications_enabled = {TRUE}
                  /\ u # walk.organizer_id
                  /\ users[u].city = {walk.city}
                  /\ get_walks_age_ok(walk.conditions, users[u].age)
                  => /\ u \in response.out <=>
                           /\ normalize_sex(users[u].sex) # Unset
                           /\ normalize_sex(users[u].sex)
                                  \subseteq Range(normalize_sex_list(walk.conditions.sex))
                     /\ u \in response.out <=>
                           get_walks_sex_ok(walk.conditions, users[u].sex)

(* ------------------------------ age bands ----------------------------- *)

AgeGroups == {"18-24", "25-34", "35-44", "45-54", "55-64", "65-74", "75+"}

\* The ages at the edges of the bands, and one below and some above them.
AgeInputs == {0, 17, 18, 24, 25, 34, 35, 44, 45, 54, 55, 64, 65, 74, 75, 76, 120}

\* Two users have registered; the first is in Paris.
InitAge ==
    /\ SignedUp(2)
    /\ NoWalksYet
    /\ NothingElse

SetCity == \E u \in {1, 2} : update_profile(Cookie(u), CityOnly("Paris"))
SetAge == \E a \in AgeInputs : update_profile(Cookie(2), AgeOnly(a))
CreateWalkForAges ==
    \E g \in AgeGroups : create_walk(Cookie(1), WalkFor(<<>>, <<g>>))
ListWalks == get_walks(Cookie(2), FALSE, FALSE, FALSE)

\* A user of any age, walks for one age group each, and the user listing them.
NextAge ==
    \/ SetCity
    \/ SetAge
    \/ CreateWalkForAges
    \/ ListWalks

SpecAge == InitAge /\ [][NextAge]_vars

\* The bands that hold an age, for the chain of notify_previous_participants
\* and for the chain of get_walks.
NotifyBandsOf(age) == {g \in AgeGroups : notify_age_in_group(g, age)}
ListingBandsOf(age) == {g \in AgeGroups : get_walks_age_in_group(g, age)}

\* C5: every age from 18 up lies in exactly one of the seven bands and every
\* age below 18 in none, the same band in notify_previous_participants and
\* in get_walks; so a user in the walk's city is notified of a walk for one
\* band, and finds it in the listing, exactly when that band holds the age.
C5_BandsPartitionAges ==
    /\ \A u \in DOMAIN users : \A a \in users[u].age :
          /\ Cardinality(NotifyBandsOf(a)) = (IF a >= 18 THEN 1 ELSE 0)
          /\ NotifyBandsOf(a) = ListingBandsOf(a)
          /\ NotifyBandsOf(a) = {g \in AgeGroups : InBand(g, a)}
    /\ response.op = "create_walk" /\ response.status = 200 =>
          \A u \in DOMAIN users \ {response.user} :
              users[u].city = {"Paris"} =>
                  (u \in response.out <=>
                      AgeAmong(users[u].age, walks[response.walk].conditions.age_groups))
    /\ response.op = "get_walks" /\ users[response.user].city = {"Paris"} =>
          \A w \in DOMAIN walks :
              w \in response.out <=>
                  AgeAmong(users[response.user].age, walks[w].conditions.age_groups)

\* A user aged 25 found a walk in the listing, and not the walk for 18-24.
C5_Witness ==
    /\ response.op = "get_walks"
    /\ users[response.user].age = {25}
    /\ \E w \in DOMAIN walks : w \in response.out
    /\ \E w \in DOMAIN walks :
          /\ walks[w].conditions.age_groups = <<"18-24">>
          /\ w \notin response.out

(* ---------------- create_booking, one database call at a time --------- *)

\* A create_booking request that has passed `pc` of its awaits.
Inflight(req, walk_id, pc) == [req |-> req, walk_id |-> walk_id, pc |-> pc]

\* The answer of create_booking to the request user_id has in flight.
BookingAnswer(user_id, code) ==
    Answer("create_booking", inflight[user_id].req, code, NoToken, user_id,
           inflight[user_id].walk_id, {}, {})

\* create_booking up to its first query of db.bookings: get_current_user,
\* then db.walks.find_one and the 404 of a missing walk.
create_booking_begin(req, walk_id) ==
    LET auth == Authenticate(req)
        current_user == auth.user_id
    IN  IF auth.status # 200 THEN Rejected("create_booking", req, auth)
        ELSE IF walk_id \notin DOMAIN walks
        THEN /\ response' = Answer("create_booking", req, 404, NoToken,
                                   current_user, walk_id, {}, {})
             /\ UNCHANGED allButResponse
        ELSE /\ current_user \notin DOMAIN inflight
             /\ inflight' = Put(inflight, current_user, Inflight(req, walk_id, "count"))
             /\ UNCHANGED <<coreVars, sendingVars, reviewVars, resetVars, experienceVars, response>>

\* await db.bookings.count_documents(...) and the check against HARD_LIMIT
create_booking_count(user_id) ==
    /\ user_id \in DOMAIN inflight
    /\ inflight[user_id].pc = "count"
    /\ IF LimitReached(ActiveCount(bookings, inflight[user_id].walk_id))
       THEN /\ response' = BookingAnswer(user_id, 400)
            /\ inflight' = Drop(inflight, user_id)
       ELSE /\ inflight' = [inflight EXCEPT ![user_id].pc = "existing"]
            /\ UNCHANGED response
    /\ UNCHANGED <<coreVars, sendingVars, reviewVars, resetVars, experienceVars>>

\* await db.bookings.find_one(...) for an active booking of the user
create_booking_existing(user_id) ==
    /\ user_id \in DOMAIN inflight
    /\ inflight[user_id].pc = "existing"
    /\ IF existing(bookings, inflight[user_id].walk_id, user_id)
       THEN /\ response' = BookingAnswer(user_id, 400)
            /\ inflight' = Drop(inflight, user_id)
       ELSE /\ inflight' = [inflight EXCEPT ![user_id].pc = "insert"]
            /\ UNCHANGED response
    /\ UNCHANGED <<coreVars, sendingVars, reviewVars, resetVars, experienceVars>>

\* await db.bookings.insert_one(booking) and the answer
create_booking_insert(user_id) ==
    /\ user_id \in DOMAIN inflight
    /\ inflight[user_id].pc = "insert"
    /\ bookings' = bookings (+) SetToBag({Booking(inflight[user_id].walk_id,
                                                  user_id, "active")})
    /\ response' = BookingAnswer(user_id, 200)
    /\ inflight' = Drop(inflight, user_id)
    /\ UNCHANGED <<now, users, sessionVars, walkVars, reminderVars,
                   retentionVars, activity, sendingVars, reviewVars, resetVars,
                   experienceVars>>

\* The users whose requests run at the same time.
Racers == HARD_LIMIT..MaxBookers

\* MaxBookers users have registered, user 1 has created a walk and all but
\* one of its places are booked, one request after the other.
InitBookingRace ==
    /\ SignedUp(MaxBookers)
    /\ walks = Put(<<>>, 1, NewWalk(1, WalkOn(1)))
    /\ nextWalkId = 1
    /\ bookings = SetToBag({Booking(1, u, "active") : u \in 1..(HARD_LIMIT - 1)})
    /\ reminders_sent = {}
    /\ reminderCalls = <<>>
    /\ NothingElse

BeginBooking == \E u \in Racers, w \in {1, 2} : create_booking_begin(Cookie(u), w)
CountBookings == \E u \in Racers : create_booking_count(u)
CheckExisting == \E u \in Racers : create_booking_existing(u)
InsertBooking == \E u \in Racers : create_booking_insert(u)
CancelRaced == \E u \in Racers : cancel_booking(Cookie(u), Booking(1, u, "active"))

\* Requests for the last place of a walk, served between each other's awaits.
NextBookingRace ==
    \/ BeginBooking
    \/ CountBookings
    \/ CheckExisting
    \/ InsertBooking
    \/ CancelRaced

SpecBookingRace == InitBookingRace /\ [][NextBookingRace]_vars

\* C11: with create_booking requests of different users interleaved at
\* their database calls, no walk has more than 10 active bookings.
C11_AtMostTenActiveInterleaved ==
    \A w \in DOMAIN walks : ActiveCount(bookings, w) <= HARD_LIMIT

(* ------------------------- one booking per user ----------------------- *)

\* The step is a create_booking of an authenticated user for a walk.
BookingStep == response'.op = "create_booking" /\ response'.user # 0

\* C12: with the requests served one at a time, no user holds two active
\* bookings of one walk; a create_booking of a user who holds an active
\* booking of the walk is answered 400 and inserts nothing; one of a user
\* who holds none (a cancelled one or not), for a walk with a free place,
\* is answered 200 and inserts the user's active booking.
C12_OneActiveBookingPerUser ==
    /\ [](\A d \in BagToSet(bookings) : d.status = "active" => bookings[d] = 1)
    /\ [][BookingStep =>
            LET mine == Booking(response'.walk, response'.user, "active")
            IN  /\ BagIn(mine, bookings) =>
                    response'.status = 400 /\ UNCHANGED bookings
                /\ /\ ~BagIn(mine, bookings)
                   /\ response'.walk \in DOMAIN walks
                   /\ ActiveCount(bookings, response'.walk) < HARD_LIMIT
                   => /\ response'.status = 200
                      /\ bookings' = bookings (+) SetToBag({mine})]_vars

\* A user who had cancelled booked the walk again, and the user's next
\* create_booking was refused.
C12_Witness ==
    /\ response.op = "create_booking"
    /\ response.status = 400
    /\ ActiveCount(bookings, response.walk) < HARD_LIMIT
    /\ BagIn(Booking(response.walk, response.user, "active"), bookings)
    /\ BagIn(Booking(response.walk, response.user, "cancelled"), bookings)

(* ---------------------------- walk capacity --------------------------- *)

\* The values of max_participants the organizers give.
Capacities == 1..MaxCapacity

\* The body of a POST /walks for a walk of n participants at most.
WalkSized(n) == [WalkOn(1) EXCEPT !.max_participants = n]

\* A WalkUpdate that gives max_participants only.
WalkResized(n) == [date |-> Unset, city |-> Unset, max_participants |-> {n}]

\* One user more than the largest walk admits has registered.
InitCapacity == SignedUp(MaxCapacity + 1) /\ NoWalksYet /\ NothingElse

CreateSizedWalk == \E n \in Capacities : create_walk(Cookie(1), WalkSized(n))
ResizeWalk ==
    \E u \in {1, 2}, w \in WalkIds, n \in Capacities :
        update_walk(Cookie(u), w, WalkResized(n))
BookSizedWalk ==
    \E u \in 1..(MaxCapacity + 1), w \in WalkIds : create_booking(Cookie(u), w)

\* An organizer creating walks of a few places and changing their size,
\* and users booking them.
NextCapacity ==
    \/ CreateSizedWalk
    \/ ResizeWalk
    \/ BookSizedWalk

SpecCapacity == InitCapacity /\ [][NextCapacity]_vars

\* C13: no walk has more active bookings than its max_participants.
C13_AtMostMaxParticipants ==
    \A w \in DOMAIN walks : ActiveCount(bookings, w) <= walks[w].max_participants

(* --------------------------- walk ownership --------------------------- *)

\* The users who organize walks, and the user who is given the admin role.
Organizers == {1, 2}
Promoted == {3}

\* Three users have registered by e-mail, the first with a listed admin e-mail.
InitOwner == SignedUp(3) /\ NoWalksYet /\ NothingElse

OrganizeWalk == \E u \in Organizers : create_walk(Cookie(u), WalkOn(1))
EditWalk ==
    \E u \in 1..3, w \in WalkIds : update_walk(Cookie(u), w, WalkDate(2))
RemoveWalk == \E u \in 1..3, w \in WalkIds : delete_walk(Cookie(u), w)
BookOwnedWalk == \E u \in Promoted : create_booking(Cookie(u), 1)
CancelOwnedBooking ==
    \E u \in Promoted : cancel_booking(Cookie(u), Booking(1, u, "active"))
MakeAdmin == \E u \in Promoted, e \in Promoted : make_admin(Cookie(u), e)

\* Organizers creating walks, every user trying to edit and delete them,
\* a user booking them and taking the admin role.
NextOwner ==
    \/ OrganizeWalk
    \/ EditWalk
    \/ RemoveWalk
    \/ BookOwnedWalk
    \/ CancelOwnedBooking
    \/ MakeAdmin

SpecOwner == InitOwner /\ [][NextOwner]_vars

\* The step is an update_walk or delete_walk of an authenticated user for
\* a walk that exists.
EditStep ==
    /\ response'.op \in {"update_walk", "delete_walk"}
    /\ response'.user # 0
    /\ response'.walk \in DOMAIN walks

\* The requester is the walk's organizer or has the admin role.
OwnerOrAdmin(walk_id, user_id) ==
    walks[walk_id].organizer_id = user_id \/ users[user_id].role = "admin"

\* C14: update_walk and delete_walk on an existing walk are answered 200
\* only to the walk's organizer or a user of role admin, and answered 403
\* to every other authenticated user, leaving the walk and all bookings as
\* they were.
C14_OnlyOrganizerOrAdminEdits ==
    [][EditStep =>
          /\ response'.status = 200 => OwnerOrAdmin(response'.walk, response'.user)
          /\ ~OwnerOrAdmin(response'.walk, response'.user) =>
                /\ response'.status = 403
                /\ UNCHANGED <<walks, bookings>>]_vars

\* The user with the listed admin e-mail, who has not the admin role, was
\* refused the deletion of another organizer's walk that has a booking.
C14_Witness ==
    /\ response.op = "delete_walk"
    /\ response.status = 403
    /\ response.user = 1
    /\ response.walk \in DOMAIN walks
    /\ walks[response.walk].organizer_id = 2
    /\ ActiveCount(bookings, response.walk) > 0

(* ---------------------- bookings and their walks ---------------------- *)

\* C15: with the requests served one at a time, every booking is of a walk
\* that exists; a create_booking for a missing walk is answered 404; a
\* delete_walk that is answered 200 removes the walk and all its bookings,
\* active and cancelled, and no other booking.
C15_BookingsReferenceWalks ==
    /\ [](\A d \in BagToSet(bookings) : d.walk_id \in DOMAIN walks)
    /\ [](/\ response.op = "create_booking"
          /\ response.user # 0
          /\ response.walk \notin DOMAIN walks
          => response.status = 404)
    /\ [][response'.op = "delete_walk" /\ response'.status = 200 =>
            /\ response'.walk \notin DOMAIN walks'
            /\ \A d \in BagToSet(bookings) :
                  IF d.walk_id = response'.walk
                  THEN ~BagIn(d, bookings')
                  ELSE CopiesIn(d, bookings') = CopiesIn(d, bookings)]_vars

\* The walk was deleted with its bookings, and a user who asked to book it
\* afterwards was answered 404.
C15_Witness ==
    /\ response.op = "create_booking"
    /\ response.status = 404
    /\ response.walk \notin DOMAIN walks
    /\ bookings = EmptyBag

(* ------------------------------ reviewing ----------------------------- *)

\* The ratings sent: the allowed ones at their edges and the ones next to them.
RatingInputs == {0, 1, 5, 6}

\* Two users have registered and user 1 has created a walk.
InitReview ==
    /\ SignedUp(2)
    /\ walks = Put(<<>>, 1, NewWalk(1, WalkOn(1)))
    /\ nextWalkId = 1
    /\ bookings = EmptyBag
    /\ reminders_sent = {}
    /\ reminderCalls = <<>>
    /\ NothingElse

BookReviewed == \E u \in 1..2 : create_booking(Cookie(u), 1)
CancelReviewed == cancel_booking(Cookie(2), Booking(1, 2, "active"))
DeleteReviewed == delete_walk(Cookie(1), 1)
CreateReview ==
    \E u \in 1..2, w \in WalkIds, rating \in RatingInputs :
        create_review(Cookie(u), w, rating)

\* Users booking a walk, cancelling and reviewing it, and its organizer
\* deleting it.
NextReview ==
    \/ BookReviewed
    \/ CancelReviewed
    \/ DeleteReviewed
    \/ CreateReview

SpecReview == InitReview /\ [][NextReview]_vars

\* The reviews of a walk by a user.
ReviewsOf(walk_id, user_id) ==
    Matching(reviews, LAMBDA d : d.walk_id = walk_id /\ d.user_id = user_id)

\* C16: with the requests served one at a time, there is at most one review
\* per user and walk and every stored rating is between 1 and 5; a
\* create_review that is answered 200 stores one review of the requester,
\* for a walk that exists and that the requester has a booking of (of any
\* status), and one that is refused stores nothing.
C16_OneValidReviewPerUserAndWalk ==
    /\ [](\A d \in BagToSet(reviews) :
             /\ d.rating \in 1..5
             /\ BagCardinality(ReviewsOf(d.walk_id, d.user_id)) = 1)
    /\ [][response'.op = "create_review" =>
            IF response'.status = 200
            THEN /\ response'.walk \in DOMAIN walks
                 /\ booked(bookings, response'.walk, response'.user)
                 /\ \E r \in 1..5 :
                       reviews' = reviews (+)
                           SetToBag({Review(response'.walk, response'.user, r)})
            ELSE UNCHANGED reviews]_vars

\* A user who holds the only review of the walk asked to review it again
\* and was refused; the other user has no booking of the walk.
C16_Witness ==
    /\ response.op = "create_review"
    /\ response.status = 400
    /\ existing_review(reviews, response.walk, response.user)
    /\ BagCardinality(reviews) = 1
    /\ ~booked(bookings, response.walk, 3 - response.user)

(* -------------------------- resetting passwords ----------------------- *)

\* The e-mails asked about: of the user registered by e-mail, of the user
\* who signs in with Google, and of nobody.
ResetEmails == {1, 2, 3}

\* The reset codes random.choices draws, of the 10^6.
ResetCodes == {1, 2}

\* The new passwords sent: too short by one character, and two long enough.
PasswordInputs == {"12345", "123456", "abcdefg"}

\* One user has registered by e-mail.
InitReset == SignedUp(1) /\ NoWalksYet /\ NothingElse

GoogleSignIn == create_session(2, <<"ext", 1>>)
ForgotPassword == \E e \in ResetEmails, c \in ResetCodes : forgot_password(e, c)
ResetPassword ==
    \E e \in ResetEmails, c \in ResetCodes, p \in PasswordInputs : reset_password(e, c, p)

\* Reset codes asked for and used while the minutes pass, and a user
\* signing in with Google.
NextReset ==
    \/ GoogleSignIn
    \/ ForgotPassword
    \/ ResetPassword
    \/ TickMinute(MaxMinute)

SpecReset == InitReset /\ [][NextReset]_vars

\* The reset code a reset_password answer is about.
GivenCode(answer) == CHOOSE c \in answer.passed : TRUE

\* C17: reset_password is answered 200 and sets the password hash only
\* when given the reset code issued last for the e-mail, not used since
\* and issued at most 15 minutes before; it then marks the code used (so
\* that the same code is refused from then on).  Every other
\* reset_password is answered 400 and leaves the users and the reset codes
\* as they were.
C17_ResetOnlyWithFreshCode ==
    [][response'.op = "reset_password" =>
          LET email == response'.user
          IN  IF response'.status = 200
              THEN /\ email \in DOMAIN issued
                   /\ issued[email].reset_code = GivenCode(response')
                   /\ ~issued[email].used
                   /\ minute <= issued[email].at + ResetMinutes
                   /\ password_resets'[email].used
                   /\ \E p \in PasswordInputs :
                         /\ Len(p) >= MinPasswordLength
                         /\ users' = [users EXCEPT ![email].password_hash = {p}]
              ELSE /\ response'.status = 400
                   /\ UNCHANGED <<users, password_resets>>]_vars

\* The code issued last was used for a reset, and when given again within
\* its 15 minutes it was refused.
C17_Witness ==
    /\ response.op = "reset_password"
    /\ response.status = 400
    /\ response.user \in DOMAIN issued
    /\ issued[response.user].reset_code = GivenCode(response)
    /\ issued[response.user].used
    /\ minute <= issued[response.user].at + ResetMinutes
    /\ users[response.user].password_hash # {"initial"}

\* The users without the one of this e-mail.
WithoutUser(email) == [u \in DOMAIN users \ {email} |-> users[u]]

\* C18: the answer of forgot_password is the one it gives for the same
\* e-mail when no user has it: the same message, and no reset code.
C18_ForgotPasswordHidesAccount ==
    response.op = "forgot_password" =>
        /\ response.out = {forgot_password_message(WithoutUser(response.user),
                                                   response.user)}
        /\ response.passed = {}

(* ------------------------- reading experiences ------------------------ *)

\* The cities user 2 moves between, and those user 3 gives, one of them
\* the empty string.
CityInputs == [u \in {2, 3} |-> IF u = 2 THEN {"Paris", "Lyon"} ELSE {"Paris", ""}]

\* Three users have registered, the first with a listed admin e-mail.
InitExperience == SignedUp(3) /\ NoWalksYet /\ NothingElse

MoveToCity ==
    \E u \in {2, 3} : \E c \in CityInputs[u] : update_profile(Cookie(u), CityOnly(c))
\* User 2 posts; the text user 3 sends is too short.
CreateExperience == \E u \in {2, 3} : create_experience(Cookie(u), u = 2)
GetExperiences == \E u \in 1..3 : get_experiences(Cookie(u))
UpdateExperienceVisibility ==
    \E u \in {1, 2}, e \in 1..MaxExperiences, v \in BOOLEAN :
        update_experience_visibility(Cookie(u), e, v)

\* Users posting experiences and reading them, and the admin hiding and
\* showing them.
NextExperience ==
    \/ MoveToCity
    \/ CreateExperience
    \/ GetExperiences
    \/ UpdateExperienceVisibility

SpecExperience == InitExperience /\ [][NextExperience]_vars

\* C19: what get_experiences returns to a user who is not an admin holds
\* no experience whose is_visible was last set to False, and only
\* experiences whose user_city is the user's city; it is empty when the
\* user has no city.
C19_HiddenExperiencesNotReturned ==
    /\ response.op = "get_experiences"
    /\ response.status = 200
    /\ ~is_admin(response.user)
    => /\ \A e \in response.out :
             /\ experiences[e].is_visible # {FALSE}
             /\ experiences[e].user_city # Unset
             /\ experiences[e].user_city = users[response.user].city
       /\ users[response.user].city \in {Unset, {""}} => response.out = {}

\* A user was returned an experience of the user's city that had been
\* hidden and was shown again, and not the hidden one of the same city.
C19_Witness ==
    /\ response.op = "get_experiences"
    /\ ~is_admin(response.user)
    /\ \E e \in response.out : experiences[e].is_visible = {TRUE}
    /\ \E e \in DOMAIN experiences \ response.out :
          /\ experiences[e].is_visible = {FALSE}
          /\ experiences[e].user_city = users[response.user].city

(* --------------------- who receives a walk reminder ------------------- *)

\* Three users have registered and user 1 has created a walk for tomorrow.
InitDelivery ==
    /\ SignedUp(3)
    /\ walks = Put(<<>>, 1, NewWalk(1, WalkOn(ReminderLeadDays)))
    /\ nextWalkId = 1
    /\ bookings = EmptyBag
    /\ reminders_sent = {}
    /\ reminderCalls = <<>>
    /\ NothingElse

BookReminded == \E u \in {2, 3} : create_booking(Cookie(u), 1)
CancelReminded == cancel_booking(Cookie(3), Booking(1, 3, "active"))
MuteNotifications ==
    \E u \in {2, 3}, e \in BOOLEAN : update_profile(Cookie(u), Notifications(e))
RegisterDevice == \E u \in {2, 3} : register_push_token(Cookie(u), u = 2)

\* Users booking a walk, registering their device and switching their
\* notifications, and the reminder job.
NextDelivery ==
    \/ BookReminded
    \/ CancelReminded
    \/ MuteNotifications
    \/ RegisterDevice
    \/ check_and_send_24h_reminders

SpecDelivery == InitDelivery /\ [][NextDelivery]_vars

\* C20: the reminders of a run go, by push and by e-mail, only to users
\* who hold an active booking of the walk and have notifications_enabled
\* True.
C20_RemindersOnlyToEnabledBookers ==
    response.op = "check_and_send_24h_reminders" =>
        \A d \in response.passed :
            /\ BagIn(Booking(d[1], d[2], "active"), bookings)
            /\ users[d[2]].notifications_enabled = {TRUE}

(* ------------------ when the reminder marker is recorded -------------- *)

\* C21: a run of check_and_send_24h_reminders records the reminders_sent
\* marker of a walk only when the reminder was dispatched to participants
\* of the walk: a walk that has no active booking at the run gets no
\* marker and stays not-yet-sent for the later runs of the day.
C21_MarkerOnlyWhenDispatched ==
    [][\A key \in reminders_sent' \ reminders_sent :
          \E d \in BagToSet(bookings) :
              d.walk_id = key[1] /\ d.status = "active"]_vars

(* ------------- the retention job with many inactive users ------------- *)

\* One user more than a run of the job reads.
BacklogUsers == 1..(ToListLength + 1)

\* publish delivers to all.
BacklogOutcomes == {[x \in BacklogUsers |-> "ok"]}

\* All the users have registered, each with a device.
InitBacklog ==
    /\ SignedUp(ToListLength + 1)
    /\ NoWalksYet
    /\ retention_notifications = <<>>
    /\ response = NoResponse
    /\ loggedOut = {}
    /\ inflight = <<>>
    /\ reviews = EmptyBag
    /\ password_resets = <<>>
    /\ minute = 0
    /\ issued = <<>>
    /\ experiences = <<>>
    /\ sending = <<>>
    /\ push_tokens = BacklogUsers

SwitchFirst == \E e \in BOOLEAN : update_profile(Cookie(1), Notifications(e))
DailyRetentionJob ==
    \E outcomes \in BacklogOutcomes : check_and_send_retention_notifications(outcomes)

\* The daily job over several days, while the first user switches the
\* notifications off and on.
NextBacklog ==
    \/ SwitchFirst
    \/ DailyRetentionJob
    \/ Tick(MaxDayRetention)

\* The scheduler runs the job every day, and the days pass.
SpecBacklog ==
    /\ InitBacklog
    /\ [][NextBacklog]_vars
    /\ WF_vars(DailyRetentionJob)
    /\ WF_vars(Tick(MaxDayRetention))

\* The user has been inactive for three days or more, has notifications
\* not disabled and a push token.
Nudgeable(u) ==
    /\ now - activity[u] >= RetentionDays
    /\ users[u].notifications_enabled # {FALSE}
    /\ u \in push_tokens

\* C22: under repeated runs of the daily job, a user who is inactive for 3
\* days or more, with notifications not disabled and a push token, and who
\* stays so, is eventually sent a retention notification, however many
\* inactive users there are (stated for the first user of the collection
\* and for the last one).
C22_InactiveUserEventuallySent ==
    \A u \in {1, ToListLength + 1} :
        Nudgeable(u) ~> (RecordsOf(u) # {} \/ ~Nudgeable(u))

(* ------------ the retention loops, one database call at a time -------- *)

\* A run of the loop over the inactive users found (todo), at the step
\* `pc` of send_retention_notification for the first of them.
Sending(op, req, user, todo) ==
    [op |-> op, req |-> req, user |-> user, todo |-> todo, pc |-> "existing",
     passed |-> {}, sent |-> {}]

\* The run goes on to the next user of its list.
NextUser(run, wasSent) ==
    [sending EXCEPT ![run].todo = Tail(@), ![run].pc = "existing",
                    ![run].sent = @ \cup (IF wasSent THEN {Head(sending[run].todo)}
                                          ELSE {})]

\* check_and_send_retention_notifications up to its loop: the query.
check_and_send_retention_notifications_begin ==
    /\ "job" \notin DOMAIN sending
    /\ sending' = Put(sending, "job",
                      Sending("check_and_send_retention_notifications", NoRequest, 0,
                              inactive_users))
    /\ UNCHANGED <<coreVars, raceVars, reviewVars, resetVars, experienceVars, response>>

\* test_retention_notifications up to its loop: get_current_user, the
\* admin check and the query.
test_retention_notifications_begin(req) ==
    LET auth == Authenticate(req)
    IN  IF auth.status # 200 THEN Rejected("test_retention_notifications", req, auth)
        ELSE IF ~is_admin(auth.user_id)
        THEN /\ response' = Resp("test_retention_notifications", req, 403, NoToken,
                                 auth.user_id)
             /\ UNCHANGED allButResponse
        ELSE /\ "test" \notin DOMAIN sending
             /\ sending' = Put(sending, "test",
                               Sending("test_retention_notifications", req, auth.user_id,
                                       inactive_users))
             /\ UNCHANGED <<coreVars, raceVars, reviewVars, resetVars, experienceVars,
                            response>>

\* send_retention_notification up to its awaits after the look-back:
\* db.push_tokens.find_one (in the admin's run, also the has_token test
\* before the call) and db.retention_notifications.find_one.
send_retention_notification_existing(run) ==
    /\ run \in DOMAIN sending
    /\ sending[run].pc = "existing"
    /\ sending[run].todo # <<>>
    /\ LET user_id == Head(sending[run].todo)
           called == run = "job" \/ user_id \in push_tokens
           passed == [sending EXCEPT ![run].passed =
                         @ \cup (IF called THEN {user_id} ELSE {})]
       IN  sending' =
               IF user_id \notin push_tokens \/ sent_recently(retention_notifications, user_id)
               THEN [passed EXCEPT ![run].todo = Tail(@)]
               ELSE [passed EXCEPT ![run].pc = "publish"]
    /\ UNCHANGED <<coreVars, raceVars, reviewVars, resetVars, experienceVars, response>>

\* push_client.publish(...) and what the two except clauses do.
send_retention_notification_publish(run, outcome) ==
    /\ run \in DOMAIN sending
    /\ sending[run].pc = "publish"
    /\ IF outcome = "ok"
       THEN /\ sending' = [sending EXCEPT ![run].pc = "insert"]
            /\ UNCHANGED push_tokens
       ELSE /\ sending' = NextUser(run, FALSE)
            /\ push_tokens' = IF outcome = "DeviceNotRegisteredError"
                              THEN push_tokens \ {Head(sending[run].todo)}
                              ELSE push_tokens
    /\ UNCHANGED <<now, users, sessionVars, walkVars, bookings, reminderVars,
                   retention_notifications, activity, raceVars, reviewVars, resetVars,
                   experienceVars, response>>

\* await db.retention_notifications.insert_one(...) and return True
send_retention_notification_insert(run) ==
    /\ run \in DOMAIN sending
    /\ sending[run].pc = "insert"
    /\ retention_notifications' =
           Append(retention_notifications, retention_record(Head(sending[run].todo)))
    /\ sending' = NextUser(run, TRUE)
    /\ UNCHANGED <<now, users, sessionVars, walkVars, bookings, reminderVars,
                   push_tokens, activity, raceVars, reviewVars, resetVars,
                   experienceVars, response>>

\* The loop is over: the job logs its count, the endpoint answers.
retention_loop_end(run) ==
    /\ run \in DOMAIN sending
    /\ sending[run].pc = "existing"
    /\ sending[run].todo = <<>>
    /\ response' = Answer(sending[run].op, sending[run].req,
                          IF run = "job" THEN Cardinality(sending[run].sent) ELSE 200,
                          NoToken, sending[run].user, 0,
                          sending[run].passed, sending[run].sent)
    /\ sending' = Drop(sending, run)
    /\ UNCHANGED <<coreVars, raceVars, reviewVars, resetVars, experienceVars>>

\* The daily job and the admin's trigger.
Runs == {"job", "test"}

\* Two users have registered, each with a device; user 1 is the admin.
InitRetentionRace ==
    /\ SignedUp(2)
    /\ NoWalksYet
    /\ retention_notifications = <<>>
    /\ response = NoResponse
    /\ loggedOut = {}
    /\ inflight = <<>>
    /\ reviews = EmptyBag
    /\ password_resets = <<>>
    /\ minute = 0
    /\ issued = <<>>
    /\ experiences = <<>>
    /\ sending = <<>>
    /\ push_tokens = {1, 2}

BeginJob == check_and_send_retention_notifications_begin
BeginTest == \E u \in {1, 2} : test_retention_notifications_begin(Cookie(u))
LookBack == \E run \in Runs : send_retention_notification_existing(run)
Publish ==
    \E run \in Runs, outcome \in PublishOutcomes :
        send_retention_notification_publish(run, outcome)
InsertRecord == \E run \in Runs : send_retention_notification_insert(run)
EndLoop == \E run \in Runs : retention_loop_end(run)

\* The daily job and the admin's trigger of it, served between each
\* other's awaits, today and tomorrow.
NextRetentionRace ==
    \/ BeginJob
    \/ BeginTest
    \/ LookBack
    \/ Publish
    \/ InsertRecord
    \/ EndLoop
    \/ Tick(MaxDay)

SpecRetentionRace == InitRetentionRace /\ [][NextRetentionRace]_vars

\* C23: with the daily job and the admin's trigger interleaved at the
\* steps of send_retention_notification (look-back, publish, insert), a
\* user is still sent at most one retention notification within 3 days:
\* no two records of a user are less than 3 days apart.
C23_AtMostOneWithinThreeDaysInterleaved ==
    \A u \in DOMAIN users :
        \A i, j \in RecordsOf(u) :
            i < j => retention_notifications[j].sent_at
                         - retention_notifications[i].sent_at >= RetentionDays

====
